---- MODULE Spec2Model ----
(***************************************************************************)
(* muserial: a console <-> UART bridge driven by an io_uring reactor.      *)
(*                                                                         *)
(* The model follows src/src/reactor.rs (Submitter, Reactor::run,          *)
(* Reactor::submit), src/src/uart_tty.rs (the bridge continuations and     *)
(* start_uart_teardown), src/src/uart_tty_sm.rs (the second copy of the    *)
(* bridge, which differs in tty_read_done and uart_read_done) and          *)
(* src/src/transcript.rs (the log buffer).  The kernel side of the ring    *)
(* is the environment: it completes reads, writes and cancels.             *)
(* src/src/bufqueue.rs (the partial-write queue of the poll loop) is       *)
(* modelled on its own, the sink it writes to being the environment.       *)
(* uart_tty_sm.rs calls reactor.read, reactor.write, reactor.cancel,       *)
(* transcript.log and transcript.flush, which src/ does not hold: the      *)
(* model gives them the Submitter's submit_read, submit_write and          *)
(* submit_cancel and transcript.rs's log_to_transcript and                 *)
(* start_transcript_teardown.                                              *)
(*                                                                         *)
(* Six specifications share the variables.  Spec is the bridge under       *)
(* Reactor::run.  SpecCalls is a client of Reactor::with_submitter, with   *)
(* next_id at its u64 width.  SpecEintr is retry_on_eintr over sequences   *)
(* of results.  SpecLog is the log buffer alone, its writes completed by   *)
(* the environment.  SpecQueue is a caller of BufQueue.  SpecMain is       *)
(* main and mainloop of src/src/main.rs (the poll loop) with               *)
(* UartTty::new and Drop of src/src/uart_tty.rs, the terminal settings     *)
(* and the readiness results being the environment.                        *)
(***************************************************************************)
EXTENDS Integers, Sequences, FiniteSets, TLC

\* ---------------------------------------------------------------- bounds
\* The environment feeds at most this many bytes, over both endpoints;
\* writes, and zero, error and cancel results are not limited.
MaxBytes == 2

\* The client of the Reactor API submits at most this many operations.
MaxClientOps == 2

\* ------------------------------------------------------- program constants
CONTROL_O == 15
DEFAULT_READ_SIZE == 1024
TRANSCRIPT_BUFFER_SIZE == 4096

\* The bridge looks at a byte only to compare it with CONTROL_O, so the
\* environment feeds each endpoint a test pattern in which every byte is
\* different (a lost, repeated or reordered byte shows).  A console read
\* may carry CONTROL_O at any one place (ReadBufs); the UART's input has
\* CONTROL_O as its second byte, which the bridge has to pass on.  The k-th
\* byte of the console's and the UART's input:
TtyByte(k) == 96 + k
UartByte(k) == IF k = 2 THEN CONTROL_O ELSE 64 + k

\* The two copies of the bridge in the repository.
Variants == {"uart_tty", "uart_tty_sm"}

\* Submission ring sizes given to Reactor::new (io_uring takes powers of
\* two): 1 is what the repository's test passes, 4 holds all that one round
\* submits.
RingSizes == {1, 2, 4}

TTY_FD == "tty"
UART_FD == "uart"
FILE_FD == "transcript"

\* errno values the kernel reports as negative results.
Errno == [EIO |-> 5, ENOENT |-> 2, EALREADY |-> 114, ECANCELED |-> 125]

\* --------------------------------------------------------------- helpers
\* The buffers a read of r bytes can return when pos bytes of the endpoint's
\* input were read before: the next r bytes, or for the console those with
\* CONTROL_O at one place.
Pattern(fd, pos, r) == [i \in 1..r |-> IF fd = "tty" THEN TtyByte(pos + i) ELSE UartByte(pos + i)]
ReadBufs(fd, pos, r) ==
    {Pattern(fd, pos, r)} \cup
    (IF fd = "tty" THEN {[Pattern(fd, pos, r) EXCEPT ![j] = CONTROL_O] : j \in 1..r} ELSE {})

\* A test of the first byte only, where the code searches the buffer.
starts_with(buf, b) == Len(buf) > 0 /\ buf[1] = b

\* Vec::contains
Contains(buf, b) == \E i \in 1..Len(buf) : buf[i] = b

\* What split_off leaves in buf, where the code takes what it returns.
split_off_rest(buf, at) == SubSeq(buf, 1, at)

\* split_off that returns the whole buffer.
split_off_whole(buf, at) == buf

\* Vec::split_off(at): the bytes from index at (0-based) to the end.
split_off(buf, at) == SubSeq(buf, at + 1, Len(buf))

\* The first n bytes of buf (what a write of n bytes consumed).
Take(buf, n) == SubSeq(buf, 1, n)

\* A positioned write: data written over file from byte offset on, the
\* file growing as needed (a gap reads as zeros).
WriteAt(file, offset, data) ==
    [i \in 1..(IF Len(file) > offset + Len(data) THEN Len(file) ELSE offset + Len(data)) |->
        IF i > offset /\ i <= offset + Len(data) THEN data[i - offset]
        ELSE IF i <= Len(file) THEN file[i]
        ELSE 0]

IsPrefix(s, t) == Len(s) <= Len(t) /\ SubSeq(t, 1, Len(s)) = s

\* ------------------------------------------------------ bridge state enum
Reading(id) == [tag |-> "Reading", id |-> id]
Processing == [tag |-> "Processing", id |-> 0]
Writing(id) == [tag |-> "Writing", id |-> id]
TearDown(id) == [tag |-> "TearDown", id |-> id]
TornDown == [tag |-> "TornDown", id |-> 0]

\* ------------------------------------------------------------- Submitter
\* The continuations run against a record w:
\*   tty_state, uart_state   the two Cells of UartTtySM
\*   transcript              the Transcript (present = Option is Some)
\*   actions, next_id        the Submitter handed to the continuation
\*   panic                   "" or the message of the panic! that ended it
Action(kind, fd, buf, len, offset, target, user_data, cb) ==
    [kind |-> kind, fd |-> fd, buf |-> buf, len |-> len, offset |-> offset,
     target |-> target, user_data |-> user_data, cb |-> cb]

submit_read(w, fd, len, cb) ==
    [w EXCEPT !.actions = Append(@, Action("Read", fd, <<>>, len, 0, 0, w.next_id, cb)),
              !.next_id = @ + 1]

submit_write(w, fd, buf, offset, cb) ==
    [w EXCEPT !.actions = Append(@, Action("Write", fd, buf, Len(buf), offset, 0, w.next_id, cb)),
              !.next_id = @ + 1]

submit_cancel(w, id, cb) ==
    [w EXCEPT !.actions = Append(@, Action("Cancel", "none", <<>>, 0, 0, id, w.next_id, cb)),
              !.next_id = @ + 1]

\* The id the last submit_* call returned.
LastId(w) == w.next_id - 1

Panic(w, msg) == [w EXCEPT !.panic = msg]

\* ------------------------------------------------------------ Transcript
\* write_buf that writes at the start of the file every time.
write_buf_offset_zero(w, buf) ==
    submit_write(w, FILE_FD, buf, 0, "handle_buffer_ev")

write_buf(w, buf) ==
    submit_write(w, FILE_FD, buf, w.transcript.offset, "handle_buffer_ev")

\* handle_buffer_ev that leaves flushing set when nothing is left to write.
handle_buffer_ev_stays_flushing(w, result, buf) ==
    IF ~w.transcript.flushing THEN Panic(w, "assertion failed: transcript.flushing.get()")
    ELSE IF result = 0 THEN Panic(w, "Got EOF on write in Transcript::handle_buffer_ev")
    ELSE IF result < 0 THEN Panic(w, "Got error on write in Transcript::handle_buffer_ev")
    ELSE
        LET w1 == [w EXCEPT !.transcript.offset = @ + result] IN
        IF result < Len(buf) THEN write_buf(w1, split_off(buf, result))
        ELSE IF w1.transcript.bufs_to_be_flushed # <<>>
        THEN write_buf([w1 EXCEPT !.transcript.bufs_to_be_flushed = Tail(@)],
                       Head(w1.transcript.bufs_to_be_flushed))
        ELSE w1

handle_buffer_ev(w, result, buf) ==
    IF ~w.transcript.flushing THEN Panic(w, "assertion failed: transcript.flushing.get()")
    ELSE IF result = 0 THEN Panic(w, "Got EOF on write in Transcript::handle_buffer_ev")
    ELSE IF result < 0 THEN Panic(w, "Got error on write in Transcript::handle_buffer_ev")
    ELSE
        LET w1 == [w EXCEPT !.transcript.offset = @ + result] IN
        IF result < Len(buf) THEN write_buf(w1, split_off(buf, result))
        ELSE IF w1.transcript.bufs_to_be_flushed # <<>>
        THEN write_buf([w1 EXCEPT !.transcript.bufs_to_be_flushed = Tail(@)],
                       Head(w1.transcript.bufs_to_be_flushed))
        ELSE [w1 EXCEPT !.transcript.flushing = FALSE]

\* start_transcript_teardown that flushes current whether or not a write is
\* in flight.
start_transcript_teardown_always(w) ==
    IF w.transcript.current_buf = <<>> THEN w
    ELSE write_buf([w EXCEPT !.transcript.flushing = TRUE,
                             !.transcript.current_buf = <<>>],
                   w.transcript.current_buf)

start_transcript_teardown(w) ==
    IF w.transcript.flushing THEN w
    ELSE IF w.transcript.bufs_to_be_flushed # <<>>
    THEN Panic(w, "assertion failed: transcript.bufs_to_be_flushed.borrow().is_empty()")
    ELSE IF w.transcript.current_buf = <<>> THEN w
    ELSE write_buf([w EXCEPT !.transcript.flushing = TRUE,
                             !.transcript.current_buf = <<>>],
                   w.transcript.current_buf)

\* log_to_transcript that starts a flush whenever none is under way.
log_to_transcript_eager(w, buf) ==
    LET t == w.transcript
        new_buf_size == Len(buf) + Len(t.current_buf)
        w0 == [w EXCEPT !.logged = @ \o buf]
    IN
    IF new_buf_size < TRANSCRIPT_BUFFER_SIZE /\ t.flushing
    THEN [w0 EXCEPT !.transcript.current_buf = @ \o buf]
    ELSE
        LET buf_to_flush == IF new_buf_size <= TRANSCRIPT_BUFFER_SIZE
                            THEN t.current_buf \o buf ELSE t.current_buf
            w1 == [w0 EXCEPT !.transcript.current_buf =
                       IF new_buf_size <= TRANSCRIPT_BUFFER_SIZE THEN <<>> ELSE buf]
        IN
        IF t.flushing
        THEN [w1 EXCEPT !.transcript.bufs_to_be_flushed = Append(@, buf_to_flush)]
        ELSE write_buf([w1 EXCEPT !.transcript.flushing = TRUE], buf_to_flush)

\* A variant that keeps extending the current buffer when the new size is
\* exactly TRANSCRIPT_BUFFER_SIZE (the comparison of transcript.rs:127 as <=).
log_to_transcript_fills(w, buf) ==
    LET t == w.transcript
        new_buf_size == Len(buf) + Len(t.current_buf)
        w0 == [w EXCEPT !.logged = @ \o buf]
    IN
    IF new_buf_size <= TRANSCRIPT_BUFFER_SIZE
    THEN [w0 EXCEPT !.transcript.current_buf = @ \o buf]
    ELSE
        LET buf_to_flush == t.current_buf
            w1 == [w0 EXCEPT !.transcript.current_buf = buf]
        IN
        IF t.flushing
        THEN [w1 EXCEPT !.transcript.bufs_to_be_flushed = Append(@, buf_to_flush)]
        ELSE write_buf([w1 EXCEPT !.transcript.flushing = TRUE], buf_to_flush)

log_to_transcript(w, buf) ==
    LET t == w.transcript
        new_buf_size == Len(buf) + Len(t.current_buf)
        w0 == [w EXCEPT !.logged = @ \o buf]
    IN
    IF new_buf_size < TRANSCRIPT_BUFFER_SIZE
    THEN [w0 EXCEPT !.transcript.current_buf = @ \o buf]
    ELSE
        LET buf_to_flush == IF new_buf_size = TRANSCRIPT_BUFFER_SIZE
                            THEN t.current_buf \o buf ELSE t.current_buf
            w1 == [w0 EXCEPT !.transcript.current_buf =
                       IF new_buf_size = TRANSCRIPT_BUFFER_SIZE THEN <<>> ELSE buf]
        IN
        IF t.flushing
        THEN [w1 EXCEPT !.transcript.bufs_to_be_flushed = Append(@, buf_to_flush)]
        ELSE write_buf([w1 EXCEPT !.transcript.flushing = TRUE], buf_to_flush)

\* ------------------------------------------------ bridge (src/uart_tty.rs)
init_actions(w) ==
    LET w1 == submit_read([w EXCEPT !.tty_state = Processing, !.uart_state = Processing],
                          TTY_FD, DEFAULT_READ_SIZE, "tty_read_done")
        w2 == [w1 EXCEPT !.tty_state = Reading(LastId(w1))]
        w3 == submit_read(w2, UART_FD, DEFAULT_READ_SIZE, "uart_read_done")
    IN  [w3 EXCEPT !.uart_state = Reading(LastId(w3))]

\* start_uart_teardown that cancels nothing and has both directions
\* TornDown at once, whatever they have outstanding.
start_uart_teardown_at_once(w) ==
    LET w2 == [w EXCEPT !.tty_state = TornDown, !.uart_state = TornDown]
    IN  IF w2.transcript.present THEN start_transcript_teardown(w2) ELSE w2

\* start_uart_teardown that keeps the id of the cancelled operation in
\* TearDown, where the code keeps the id of the cancel.
start_uart_teardown_target_id(w) ==
    LET w1 == CASE w.tty_state.tag = "Processing" -> [w EXCEPT !.tty_state = TornDown]
                [] w.tty_state.tag \in {"Reading", "Writing"} ->
                     LET c == submit_cancel(w, w.tty_state.id, "handle_other_ev")
                     IN  [c EXCEPT !.tty_state = TearDown(w.tty_state.id)]
                [] OTHER -> Panic(w, "start_uart_teardown in invalid state")
    IN
    IF w1.panic # "" THEN w1
    ELSE
    LET w2 == CASE w1.uart_state.tag = "Processing" -> [w1 EXCEPT !.uart_state = TornDown]
                [] w1.uart_state.tag \in {"Reading", "Writing"} ->
                     LET c == submit_cancel(w1, w1.uart_state.id, "handle_other_ev")
                     IN  [c EXCEPT !.uart_state = TearDown(w1.uart_state.id)]
                [] OTHER -> Panic(w1, "start_uart_teardown in invalid state")
    IN
    IF w2.panic # "" THEN w2
    ELSE IF w2.transcript.present THEN start_transcript_teardown(w2)
    ELSE w2

start_uart_teardown(w) ==
    LET w1 == CASE w.tty_state.tag = "Processing" -> [w EXCEPT !.tty_state = TornDown]
                [] w.tty_state.tag \in {"Reading", "Writing"} ->
                     LET c == submit_cancel(w, w.tty_state.id, "handle_other_ev")
                     IN  [c EXCEPT !.tty_state = TearDown(LastId(c))]
                [] OTHER -> Panic(w, "start_uart_teardown in invalid state")
    IN
    IF w1.panic # "" THEN w1
    ELSE
    LET w2 == CASE w1.uart_state.tag = "Processing" -> [w1 EXCEPT !.uart_state = TornDown]
                [] w1.uart_state.tag \in {"Reading", "Writing"} ->
                     LET c == submit_cancel(w1, w1.uart_state.id, "handle_other_ev")
                     IN  [c EXCEPT !.uart_state = TearDown(LastId(c))]
                [] OTHER -> Panic(w1, "start_uart_teardown in invalid state")
    IN
    IF w2.panic # "" THEN w2
    ELSE IF w2.transcript.present THEN start_transcript_teardown(w2)
    ELSE w2

\* The continuation leaves the console direction in Processing after it
\* has submitted the next operation.
tty_from_processing_stays(w, new, msg) == w

\* sm.tty_state.set(match .. { Processing => new, e => panic!(..) })
tty_from_processing(w, new, msg) ==
    IF w.tty_state.tag = "Processing" THEN [w EXCEPT !.tty_state = new] ELSE Panic(w, msg)

uart_from_processing(w, new, msg) ==
    IF w.uart_state.tag = "Processing" THEN [w EXCEPT !.uart_state = new] ELSE Panic(w, msg)

tty_read_done(w, result, buf) ==
    IF w.tty_state.tag = "Reading" THEN
        LET w1 == [w EXCEPT !.tty_state = Processing] IN
        IF result < 0 THEN Panic(w1, "Got error from tty read")
        ELSE IF Contains(buf, CONTROL_O) THEN start_uart_teardown(w1)
        ELSE LET w2 == submit_write(w1, UART_FD, buf, 0, "uart_write_done")
             IN  tty_from_processing(w2, Writing(LastId(w2)), "tty_read_done in invalid state")
    ELSE IF w.tty_state.tag = "TearDown" THEN w
    ELSE Panic(w, "tty_read_done in invalid state")

\* src/uart_tty_sm.rs: a zero-byte console read is a panic too.
tty_read_done_sm(w, result, buf) ==
    IF w.tty_state.tag = "Reading" THEN
        LET w1 == [w EXCEPT !.tty_state = Processing] IN
        IF result <= 0 THEN Panic(w1, "Got error from tty read")
        ELSE IF Contains(buf, CONTROL_O) THEN start_uart_teardown(w1)
        ELSE LET w2 == submit_write(w1, UART_FD, buf, 0, "uart_write_done")
             IN  tty_from_processing(w2, Writing(LastId(w2)), "tty_read_done in invalid state")
    ELSE IF w.tty_state.tag = "TearDown" THEN w
    ELSE Panic(w, "tty_read_done in invalid state")

\* uart_write_done that takes every positive count for the whole buffer.
uart_write_done_no_short(w, result, buf) ==
    IF w.tty_state.tag = "Writing" THEN
        LET w1 == [w EXCEPT !.tty_state = Processing] IN
        IF result = 0 THEN start_uart_teardown(w1)
        ELSE IF result < 0 THEN Panic(w1, "Got error from uart write")
        ELSE
            LET w2 == submit_read(w1, TTY_FD, DEFAULT_READ_SIZE, "tty_read_done")
            IN  tty_from_processing(w2, Reading(LastId(w2)), "uart_write_done in invalid state")
    ELSE IF w.tty_state.tag \in {"TearDown", "TornDown"} THEN w
    ELSE Panic(w, "uart_write_done in invalid state")

uart_write_done(w, result, buf) ==
    IF w.tty_state.tag = "Writing" THEN
        LET w1 == [w EXCEPT !.tty_state = Processing] IN
        IF result = 0 THEN start_uart_teardown(w1)
        ELSE IF result < 0 THEN Panic(w1, "Got error from uart write")
        ELSE IF result < Len(buf) THEN
            LET w2 == submit_write(w1, UART_FD, split_off(buf, result), 0, "uart_write_done")
            IN  tty_from_processing(w2, Writing(LastId(w2)), "uart_write_done in invalid state")
        ELSE
            LET w2 == submit_read(w1, TTY_FD, DEFAULT_READ_SIZE, "tty_read_done")
            IN  tty_from_processing(w2, Reading(LastId(w2)), "uart_write_done in invalid state")
    ELSE IF w.tty_state.tag \in {"TearDown", "TornDown"} THEN w
    ELSE Panic(w, "uart_write_done in invalid state")

\* uart_read_done that forwards the bytes without logging them.
uart_read_done_no_log(w, result, buf) ==
    IF w.uart_state.tag = "Reading" THEN
        LET w1 == [w EXCEPT !.uart_state = Processing] IN
        IF result = 0 THEN start_uart_teardown(w1)
        ELSE IF result < 0 THEN Panic(w1, "Got error from uart read")
        ELSE
            LET w3 == submit_write(w1, TTY_FD, buf, 0, "tty_write_done")
            IN  uart_from_processing(w3, Writing(LastId(w3)), "uart_read_done in invalid state")
    ELSE IF w.uart_state.tag \in {"TearDown", "TornDown"} THEN w
    ELSE Panic(w, "uart_read_done in invalid state")

uart_read_done(w, result, buf) ==
    IF w.uart_state.tag = "Reading" THEN
        LET w1 == [w EXCEPT !.uart_state = Processing] IN
        IF result = 0 THEN start_uart_teardown(w1)
        ELSE IF result < 0 THEN Panic(w1, "Got error from uart read")
        ELSE
            LET w2 == IF w1.transcript.present THEN log_to_transcript(w1, buf) ELSE w1
                w3 == submit_write(w2, TTY_FD, buf, 0, "tty_write_done")
            IN  uart_from_processing(w3, Writing(LastId(w3)), "uart_read_done in invalid state")
    ELSE IF w.uart_state.tag \in {"TearDown", "TornDown"} THEN w
    ELSE Panic(w, "uart_read_done in invalid state")

\* src/uart_tty_sm.rs: a negative UART read result starts the teardown.
uart_read_done_sm(w, result, buf) ==
    IF w.uart_state.tag = "Reading" THEN
        LET w1 == [w EXCEPT !.uart_state = Processing] IN
        IF result = 0 THEN start_uart_teardown(w1)
        ELSE IF result < 0 THEN start_uart_teardown(w1)
        ELSE
            LET w2 == IF w1.transcript.present THEN log_to_transcript(w1, buf) ELSE w1
                w3 == submit_write(w2, TTY_FD, buf, 0, "tty_write_done")
            IN  uart_from_processing(w3, Writing(LastId(w3)), "uart_read_done in invalid state")
    ELSE IF w.uart_state.tag \in {"TearDown", "TornDown"} THEN w
    ELSE Panic(w, "uart_read_done in invalid state")

\* tty_write_done that takes a count of 0 for an error.
tty_write_done_zero_fatal(w, result, buf) ==
    IF w.uart_state.tag = "Writing" THEN
        LET w1 == [w EXCEPT !.uart_state = Processing] IN
        IF result <= 0 THEN Panic(w1, "Got error from tty write")
        ELSE IF result < Len(buf) THEN
            LET w2 == submit_write(w1, TTY_FD, split_off(buf, result), 0, "tty_write_done")
            IN  uart_from_processing(w2, Writing(LastId(w2)), "uart_write_done in invalid state")
        ELSE
            LET w2 == submit_read(w1, UART_FD, DEFAULT_READ_SIZE, "uart_read_done")
            IN  uart_from_processing(w2, Reading(LastId(w2)), "uart_write_done in invalid state")
    ELSE IF w.uart_state.tag \in {"TearDown", "TornDown"} THEN w
    ELSE Panic(w, "tty_write_done in invalid state")

\* tty_write_done without the arms that return in TearDown and TornDown.
tty_write_done_no_return(w, result, buf) ==
    IF w.uart_state.tag = "Writing" THEN
        LET w1 == [w EXCEPT !.uart_state = Processing] IN
        IF result = 0 THEN start_uart_teardown(w1)
        ELSE IF result < 0 THEN Panic(w1, "Got error from tty write")
        ELSE IF result < Len(buf) THEN
            LET w2 == submit_write(w1, TTY_FD, split_off(buf, result), 0, "tty_write_done")
            IN  uart_from_processing(w2, Writing(LastId(w2)), "uart_write_done in invalid state")
        ELSE
            LET w2 == submit_read(w1, UART_FD, DEFAULT_READ_SIZE, "uart_read_done")
            IN  uart_from_processing(w2, Reading(LastId(w2)), "uart_write_done in invalid state")
    ELSE Panic(w, "tty_write_done in invalid state")

\* tty_write_done that reads again with a buffer of the size just written,
\* where the code reads with DEFAULT_READ_SIZE.
tty_write_done_keeps_size(w, result, buf) ==
    IF w.uart_state.tag = "Writing" THEN
        LET w1 == [w EXCEPT !.uart_state = Processing] IN
        IF result = 0 THEN start_uart_teardown(w1)
        ELSE IF result < 0 THEN Panic(w1, "Got error from tty write")
        ELSE IF result < Len(buf) THEN
            LET w2 == submit_write(w1, TTY_FD, split_off(buf, result), 0, "tty_write_done")
            IN  uart_from_processing(w2, Writing(LastId(w2)), "uart_write_done in invalid state")
        ELSE
            LET w2 == submit_read(w1, UART_FD, Len(buf), "uart_read_done")
            IN  uart_from_processing(w2, Reading(LastId(w2)), "uart_write_done in invalid state")
    ELSE IF w.uart_state.tag \in {"TearDown", "TornDown"} THEN w
    ELSE Panic(w, "tty_write_done in invalid state")

tty_write_done(w, result, buf) ==
    IF w.uart_state.tag = "Writing" THEN
        LET w1 == [w EXCEPT !.uart_state = Processing] IN
        IF result = 0 THEN start_uart_teardown(w1)
        ELSE IF result < 0 THEN Panic(w1, "Got error from tty write")
        ELSE IF result < Len(buf) THEN
            LET w2 == submit_write(w1, TTY_FD, split_off(buf, result), 0, "tty_write_done")
            IN  uart_from_processing(w2, Writing(LastId(w2)), "uart_write_done in invalid state")
        ELSE
            LET w2 == submit_read(w1, UART_FD, DEFAULT_READ_SIZE, "uart_read_done")
            IN  uart_from_processing(w2, Reading(LastId(w2)), "uart_write_done in invalid state")
    ELSE IF w.uart_state.tag \in {"TearDown", "TornDown"} THEN w
    ELSE Panic(w, "tty_write_done in invalid state")

handle_other_ev(w, result, user_data) == w

\* ----------------------------------------------------------------- state
VARIABLES
    variant,        \* which copy of the bridge runs
    ring_entries,   \* the size given to Reactor::new
    tty_state,      \* UartTtySM.tty_state  (console -> UART direction)
    uart_state,     \* UartTtySM.uart_state (UART -> console direction)
    transcript,     \* Transcript: offset, current_buf, flushing, bufs_to_be_flushed
    next_id,        \* Reactor.next_id
    in_progress,    \* Reactor.in_progress: Op id -> OpInProgress
    submitter,      \* the Submitter of the current round: actions, next_id
    sq,             \* entries pushed to the submission ring, not yet submitted
    kernel,         \* entries the kernel holds and has not completed
    marked,         \* ids a cancel found running (it answered EALREADY)
    cq,             \* the completion ring
    batch,          \* the completions Reactor::run is iterating over
    pc,             \* where the program is: new, run, wait, dispatch, done, err, panic
    panic,          \* the panic message, "" if none
    fed,            \* how many bytes the environment has fed to reads
    tty_pos,        \* how many bytes the kernel has read from the console
    uart_pos,       \* how many bytes the kernel has read from the UART
    tty_in,         \* bytes handed to tty_read_done, in completion order
    uart_out,       \* bytes the UART accepted from writes
    uart_in,        \* bytes handed to uart_read_done, in completion order
    tty_out,        \* bytes the console accepted from writes
    cancels,        \* the targets of the cancels submitted so far, in order
    dispatched,     \* the ids whose continuation Reactor::run has invoked
    issued,         \* the ids submit_read/write/cancel returned, in order
    fun_results,    \* retry_on_eintr: what its closure returns, call by call
    fun_calls,      \* retry_on_eintr: the calls of the closure made so far
    ret,            \* retry_on_eintr: what it returned (NoRet: it has not)
    log_count,      \* transcript: the bytes given to log_to_transcript so far
    log_appends,    \* transcript: the calls of log_to_transcript so far
    log_torn,       \* transcript: start_transcript_teardown was called
    log_done,       \* transcript: the write completions so far, in order
    log_appended,   \* the bytes handed to log_to_transcript, in order
    log_file,       \* the bytes of the transcript's file
    bufq,           \* BufQueue: the queue of buffers and the cursor written
    bq_count,       \* BufQueue: the bytes given to try_write_or_enqueue so far
    bq_calls,       \* BufQueue: the calls made so far
    sink_out,       \* BufQueue: the bytes the sink accepted, in order
    bq_last,        \* BufQueue: the call made last and the sink calls it made
    bq_failed,      \* BufQueue: some call so far returned Err
    m_pc,           \* main: where the program is (Part 1 to 5 of mainloop)
    termios,        \* main: the settings of the console and of the UART
    uart_obj,       \* main: the UartTty object and the settings it captured
    uart_new,       \* main: the step of UartTty::new that failed ("none")
    restores,       \* main: the set_tty_settings calls of UartTty's drop
    m_ret,          \* main: what mainloop returned ("none": it has not)
    exit_status,    \* main: the status the process ended with (-1: running)
    poll_results,   \* main: the PollResults of the current iteration
    bufs_to_write_tty,  \* main: the queue for the console and its cursor
    bufs_to_write_uart, \* main: the queue for the UART and its cursor
    interest,       \* main: the interest registered for the two endpoints
    m_iter,         \* main: the iterations of the loop begun so far
    last            \* the completion dispatched last in this round, and what
                    \* its continuation did ("none" between rounds)

vars == <<variant, ring_entries, tty_state, uart_state, transcript, next_id,
          in_progress, submitter, sq, kernel, marked, cq, batch, pc, panic,
          fed, tty_pos, uart_pos, tty_in, uart_out, uart_in, tty_out, cancels,
          dispatched, issued, fun_results, fun_calls, ret,
          log_count, log_appends, log_torn, log_done, log_appended, log_file,
          bufq, bq_count, bq_calls, sink_out, bq_last, bq_failed,
          m_pc, termios, uart_obj, uart_new, restores, m_ret, exit_status,
          poll_results, bufs_to_write_tty, bufs_to_write_uart, interest,
          m_iter, last>>

cfg_vars == <<variant, ring_entries>>
sm_vars == <<tty_state, uart_state, transcript>>
hist_vars == <<tty_in, uart_out, uart_in, tty_out, cancels, dispatched, issued,
               log_appended, log_file>>
env_vars == <<fed, tty_pos, uart_pos>>
\* The state of the functions that are specified on their own, which the
\* reactor, the bridge and the kernel leave alone.
eintr_vars == <<fun_results, fun_calls, ret>>
log_vars == <<log_count, log_appends, log_torn, log_done>>
bq_vars == <<bufq, bq_count, bq_calls, sink_out, bq_last, bq_failed>>
main_vars == <<m_pc, termios, uart_obj, uart_new, restores, m_ret, exit_status,
               poll_results, bufs_to_write_tty, bufs_to_write_uart, interest,
               m_iter>>
side_vars == <<eintr_vars, log_vars, bq_vars, main_vars>>

\* The transcript driven on its own has not been touched, and nothing was
\* logged or written to the file.
LogIdle ==
    /\ log_count = 0
    /\ log_appends = 0
    /\ log_torn = FALSE
    /\ log_done = <<>>
    /\ log_appended = <<>>
    /\ log_file = <<>>

\* BufQueue::new
NewBufQueue == [queue |-> <<>>, written |-> 0]

NoQueueCall == [op |-> "none", buf |-> <<>>, pre |-> NewBufQueue, calls |-> <<>>,
                ret |-> "none"]

\* The settings of a terminal device: those it had when the program
\* started, and those update_tty_settings and update_uart_settings make.
ORIG == "orig"
RAW == "raw"

NoUartTty == [present |-> FALSE, tty_settings |-> ORIG, uart_settings |-> ORIG]
NoPollResults == [tty_readable |-> FALSE, tty_writable |-> FALSE,
                  uart_readable |-> FALSE, uart_writable |-> FALSE]
NoInterest == [tty |-> {}, uart |-> {}]

\* main has not started.
MainIdle ==
    /\ m_pc = "start"
    /\ termios = [tty |-> ORIG, uart |-> ORIG]
    /\ uart_obj = NoUartTty
    /\ uart_new = "none"
    /\ restores = <<>>
    /\ m_ret = "none"
    /\ exit_status = -1
    /\ poll_results = NoPollResults
    /\ bufs_to_write_tty = NewBufQueue
    /\ bufs_to_write_uart = NewBufQueue
    /\ interest = NoInterest
    /\ m_iter = 0

\* No BufQueue call was made.
QueueIdle ==
    /\ bufq = NewBufQueue
    /\ bq_count = 0
    /\ bq_calls = 0
    /\ sink_out = <<>>
    /\ bq_failed = FALSE
    /\ bq_last = NoQueueCall

NoOps == [i \in {} |-> 0]

\* Transcript::new
NewTranscript(present) ==
    [present |-> present, offset |-> 0, current_buf |-> <<>>, flushing |-> FALSE,
     bufs_to_be_flushed |-> <<>>]

NoLast == [cb |-> "none", user_data |-> 0, result |-> 0, buf |-> <<>>,
           op |-> "none", submitted |-> <<>>, len |-> 0,
           pre_tty |-> Processing, pre_uart |-> Processing,
           pre_transcript |-> NewTranscript(FALSE), new |-> <<>>, logged |-> <<>>]

\* Submitter::new
NewSubmitter(id) == [actions |-> <<>>, next_id |-> id]

Init ==
    /\ variant \in Variants
    /\ ring_entries \in RingSizes
    /\ tty_state = Processing
    /\ uart_state = Processing
    /\ transcript \in {NewTranscript(p) : p \in BOOLEAN}
    /\ next_id = 1
    /\ in_progress = NoOps
    /\ submitter = NewSubmitter(1)
    /\ sq = <<>>
    /\ kernel = {}
    /\ marked = {}
    /\ cq = <<>>
    /\ batch = <<>>
    /\ pc = "new"
    /\ panic = ""
    /\ fed = 0
    /\ tty_pos = 0
    /\ uart_pos = 0
    /\ tty_in = <<>>
    /\ uart_out = <<>>
    /\ uart_in = <<>>
    /\ tty_out = <<>>
    /\ cancels = <<>>
    /\ dispatched = {}
    /\ issued = <<>>
    /\ fun_results = <<>>
    /\ fun_calls = 0
    /\ ret = [kind |-> "none", val |-> 0, err |-> ""]
    /\ LogIdle
    /\ QueueIdle
    /\ MainIdle
    /\ last = NoLast

\* --------------------------------------------------------------- Reactor
\* The record a continuation works on, built from the state.  logged
\* collects the bytes the continuation hands to log_to_transcript.
World ==
    [tty_state |-> tty_state, uart_state |-> uart_state, transcript |-> transcript,
     actions |-> submitter.actions, next_id |-> submitter.next_id, panic |-> "",
     logged |-> <<>>]

OpInProgress(a) ==
    [op |-> CASE a.kind = "Read" -> "ReadOp" [] a.kind = "Write" -> "WriteOp"
              [] OTHER -> "OtherOp",
     buf |-> a.buf, len |-> a.len, cb |-> a.cb]

\* submit that registers the operation before it pushes to the ring.
submit_registers_first(r, a) ==
    IF a.user_data \in DOMAIN r.in_progress
    THEN [r EXCEPT !.panic = "user_data already registered!"]
    ELSE LET r1 == [r EXCEPT !.in_progress = (a.user_data :> OpInProgress(a)) @@ @]
         IN  IF Len(r.sq) >= ring_entries THEN [r1 EXCEPT !.err = "io-uring push error"]
             ELSE [r1 EXCEPT !.sq = Append(@, a)]

\* Reactor::submit on r = [in_progress, sq, err, panic]: push to the ring,
\* then register the operation.
submit(r, a) ==
    IF Len(r.sq) >= ring_entries THEN [r EXCEPT !.err = "io-uring push error"]
    ELSE IF a.user_data \in DOMAIN r.in_progress
    THEN [r EXCEPT !.sq = Append(@, a), !.panic = "user_data already registered!"]
    ELSE [r EXCEPT !.sq = Append(@, a),
                   !.in_progress = (a.user_data :> OpInProgress(a)) @@ @]

\* The queued actions submitted last first.
RECURSIVE SubmitAll_last_first(_, _)
SubmitAll_last_first(r, actions) ==
    IF actions = <<>> \/ r.err # "" \/ r.panic # "" THEN r
    ELSE SubmitAll_last_first(submit(r, actions[Len(actions)]),
                              SubSeq(actions, 1, Len(actions) - 1))

\* for action in reactor_submitter.actions { self.submit(action)?; }
RECURSIVE SubmitAll(_, _)
SubmitAll(r, actions) ==
    IF actions = <<>> \/ r.err # "" \/ r.panic # "" THEN r
    ELSE SubmitAll(submit(r, Head(actions)), Tail(actions))

\* A map that keeps the entry HashMap::remove takes out.
remove_none(m, k) == m

\* HashMap::remove: the map without key k.
remove(m, k) == [i \in DOMAIN m \ {k} |-> m[i]]

Ring == [in_progress |-> in_progress, sq |-> sq, err |-> "", panic |-> ""]

\* Vec::resize(n, 0) of the read buffer the kernel wrote data into.
resize(data, n) == [i \in 1..n |-> IF i <= Len(data) THEN data[i] ELSE 0]

\* A read buffer handed on at its submitted size, whatever the result.
CompletionBuf_no_truncate(op, cqe) ==
    IF op.op = "ReadOp" THEN resize(cqe.data, op.len) ELSE op.buf

\* The buffer Reactor::run hands to the continuation.
CompletionBuf(op, cqe) ==
    IF op.op = "ReadOp"
    THEN (IF cqe.result >= 0 THEN resize(cqe.data, cqe.result) ELSE <<>>)
    ELSE op.buf

\* The continuation stored with the operation.
Call(cb, w, result, buf, user_data) ==
    CASE cb = "tty_read_done" ->
            IF variant = "uart_tty_sm" THEN tty_read_done_sm(w, result, buf)
            ELSE tty_read_done(w, result, buf)
      [] cb = "uart_write_done" -> uart_write_done(w, result, buf)
      [] cb = "uart_read_done" ->
            IF variant = "uart_tty_sm" THEN uart_read_done_sm(w, result, buf)
            ELSE uart_read_done(w, result, buf)
      [] cb = "tty_write_done" -> tty_write_done(w, result, buf)
      [] cb = "handle_buffer_ev" -> handle_buffer_ev(w, result, buf)
      [] OTHER -> handle_other_ev(w, result, user_data)

\* The ids of actions, in the order the Submitter returned them.
Ids(actions) == [i \in 1..Len(actions) |-> actions[i].user_data]

\* reactor.with_submitter(|s| UartTtySM::init_actions(s, ..))
Start ==
    /\ pc = "new"
    /\ LET w == init_actions(World)
           r == SubmitAll(Ring, w.actions)
       IN  /\ tty_state' = w.tty_state
           /\ uart_state' = w.uart_state
           /\ next_id' = next_id + w.next_id
           /\ in_progress' = r.in_progress
           /\ sq' = r.sq
           /\ submitter' = [actions |-> <<>>, next_id |-> w.next_id]
           /\ panic' = r.panic
           /\ pc' = IF r.panic # "" THEN "panic" ELSE IF r.err # "" THEN "err" ELSE "run"
           /\ issued' = issued \o Ids(w.actions)
    /\ UNCHANGED <<cfg_vars, side_vars, transcript, kernel, marked, cq, batch, env_vars,
                   tty_in, uart_out, uart_in, tty_out, cancels, dispatched,
                   log_appended, log_file, last>>

\* A loop head that returns Ok when the ring holds nothing to submit, where
\* the code returns when in_progress is empty.
LoopHead_ring_empty ==
    /\ pc = "run"
    /\ IF sq = <<>>
       THEN pc' = "done" /\ UNCHANGED <<submitter, kernel, sq>>
       ELSE /\ submitter' = NewSubmitter(next_id)
            /\ kernel' = kernel \cup {sq[i] : i \in 1..Len(sq)}
            /\ sq' = <<>>
            /\ pc' = "wait"
    /\ UNCHANGED <<cfg_vars, side_vars, sm_vars, next_id, in_progress, marked, cq, batch, panic,
                   env_vars, hist_vars, last>>

\* Reactor::run, the loop head: return Ok when nothing is in flight, else
\* submit the ring to the kernel and wait.
LoopHead ==
    /\ pc = "run"
    /\ IF DOMAIN in_progress = {}
       THEN pc' = "done" /\ UNCHANGED <<submitter, kernel, sq>>
       ELSE /\ submitter' = NewSubmitter(next_id)
            /\ kernel' = kernel \cup {sq[i] : i \in 1..Len(sq)}
            /\ sq' = <<>>
            /\ pc' = "wait"
    /\ UNCHANGED <<cfg_vars, side_vars, sm_vars, next_id, in_progress, marked, cq, batch, panic,
                   env_vars, hist_vars, last>>

\* submit_and_wait(1) returns; completion.sync() takes what is in the ring.
Wait ==
    /\ pc = "wait"
    /\ cq # <<>>
    /\ batch' = cq
    /\ cq' = <<>>
    /\ pc' = "dispatch"
    /\ UNCHANGED <<cfg_vars, side_vars, sm_vars, next_id, in_progress, submitter, sq, kernel,
                   marked, panic, env_vars, hist_vars, last>>

\* What a continuation that ended in w added to the Submitter.
NewActions(w) == SubSeq(w.actions, Len(submitter.actions) + 1, Len(w.actions))

RECURSIVE CancelTargets(_)
CancelTargets(actions) ==
    IF actions = <<>> THEN <<>>
    ELSE (IF Head(actions).kind = "Cancel" THEN <<Head(actions).target>> ELSE <<>>)
         \o CancelTargets(Tail(actions))

\* One turn of `for cqe in &mut completion`.
Dispatch ==
    /\ pc = "dispatch"
    /\ batch # <<>>
    /\ LET cqe == Head(batch) IN
       IF cqe.user_data \notin DOMAIN in_progress
       THEN /\ pc' = "panic"
            /\ panic' = "Got user_data in cqe that doesn't exist"
            /\ batch' = Tail(batch)
            /\ UNCHANGED <<sm_vars, in_progress, submitter, hist_vars, last>>
       ELSE
       LET op == in_progress[cqe.user_data]
           buf == CompletionBuf(op, cqe)
           w == Call(op.cb, World, cqe.result, buf, cqe.user_data)
       IN  /\ in_progress' = remove(in_progress, cqe.user_data)
           /\ tty_state' = w.tty_state
           /\ uart_state' = w.uart_state
           /\ transcript' = w.transcript
           /\ submitter' = [actions |-> w.actions, next_id |-> w.next_id]
           /\ panic' = w.panic
           /\ pc' = IF w.panic # "" THEN "panic" ELSE "dispatch"
           /\ batch' = Tail(batch)
           /\ tty_in' = IF op.cb = "tty_read_done" THEN tty_in \o buf ELSE tty_in
           /\ uart_in' = IF op.cb = "uart_read_done" THEN uart_in \o buf ELSE uart_in
           /\ UNCHANGED <<uart_out, tty_out>>
           /\ cancels' = cancels \o CancelTargets(NewActions(w))
           /\ dispatched' = dispatched \cup {cqe.user_data}
           /\ issued' = issued \o Ids(NewActions(w))
           /\ log_appended' = log_appended \o w.logged
           /\ UNCHANGED log_file
           /\ last' = [cb |-> op.cb, user_data |-> cqe.user_data, result |-> cqe.result,
                       buf |-> buf, op |-> op.op, submitted |-> op.buf, len |-> op.len,
                       pre_tty |-> tty_state, pre_uart |-> uart_state,
                       pre_transcript |-> transcript, new |-> NewActions(w),
                       logged |-> w.logged]
    /\ UNCHANGED <<cfg_vars, side_vars, next_id, sq, kernel, marked, cq, env_vars>>

\* After the loop over the completions: take the Submitter's next_id and
\* submit what the continuations queued.
RoundEnd ==
    /\ pc = "dispatch"
    /\ batch = <<>>
    /\ LET r == SubmitAll(Ring, submitter.actions) IN
       /\ next_id' = submitter.next_id
       /\ in_progress' = r.in_progress
       /\ sq' = r.sq
       /\ panic' = r.panic
       /\ pc' = IF r.panic # "" THEN "panic" ELSE IF r.err # "" THEN "err" ELSE "run"
    /\ submitter' = [submitter EXCEPT !.actions = <<>>]
    /\ last' = NoLast
    /\ UNCHANGED <<cfg_vars, side_vars, sm_vars, kernel, marked, cq, batch, env_vars, hist_vars>>

\* ---------------------------------------------------------------- kernel
\* The kernel runs beside the program.  The program looks at the completion
\* ring only in completion.sync() and hands entries to the kernel only in
\* submit_and_wait, so a kernel step taken while a round is dispatched has
\* the effect of the same step taken once the program waits again: the
\* kernel steps are taken there (pc = "wait").
Cqe(user_data, result, data) == [user_data |-> user_data, result |-> result, data |-> data]

Complete(e, cqes) ==
    /\ kernel' = kernel \ {e}
    /\ marked' = marked \ {e.user_data}
    /\ cq' = cq \o cqes

\* A read returns data.
KernelReadData ==
    /\ pc = "wait"
    /\ \E e \in kernel : \E r \in 1..(MaxBytes - fed) :
           /\ e.kind = "Read"
           /\ r <= e.len
           /\ LET pos == IF e.fd = TTY_FD THEN tty_pos ELSE uart_pos IN
              \E data \in ReadBufs(e.fd, pos, r) :
                  Complete(e, <<Cqe(e.user_data, r, data)>>)
           /\ fed' = fed + r
           /\ tty_pos' = IF e.fd = TTY_FD THEN tty_pos + r ELSE tty_pos
           /\ uart_pos' = IF e.fd = TTY_FD THEN uart_pos ELSE uart_pos + r
           /\ UNCHANGED <<cfg_vars, side_vars, sm_vars, next_id, in_progress, submitter, sq, batch,
                          pc, panic, hist_vars, last>>

\* A read or a write returns 0: end of file, the peer is gone.
KernelZero ==
    /\ pc = "wait"
    /\ \E e \in kernel :
           /\ e.kind \in {"Read", "Write"}
           /\ Complete(e, <<Cqe(e.user_data, 0, <<>>)>>)
           /\ UNCHANGED <<cfg_vars, side_vars, sm_vars, next_id, in_progress, submitter, sq, batch,
                          pc, panic, env_vars, hist_vars, last>>

\* A write accepts n > 0 bytes, all of the buffer or less.
KernelWrite ==
    /\ pc = "wait"
    /\ \E e \in kernel : \E n \in 1..e.len :
           /\ e.kind = "Write"
           /\ Complete(e, <<Cqe(e.user_data, n, <<>>)>>)
           /\ UNCHANGED env_vars
           /\ uart_out' = IF e.fd = UART_FD THEN uart_out \o Take(e.buf, n) ELSE uart_out
           /\ tty_out' = IF e.fd = TTY_FD THEN tty_out \o Take(e.buf, n) ELSE tty_out
           /\ log_file' = IF e.fd = FILE_FD THEN WriteAt(log_file, e.offset, Take(e.buf, n))
                          ELSE log_file
           /\ UNCHANGED <<cfg_vars, side_vars, sm_vars, next_id, in_progress, submitter, sq, batch,
                          pc, panic, tty_in, uart_in, cancels, dispatched, issued,
                          log_appended, last>>

\* A read or a write fails.
KernelError ==
    /\ pc = "wait"
    /\ \E e \in kernel :
           /\ e.kind \in {"Read", "Write"}
           /\ Complete(e, <<Cqe(e.user_data, -Errno.EIO, <<>>)>>)
           /\ UNCHANGED <<cfg_vars, side_vars, sm_vars, next_id, in_progress, submitter, sq, batch,
                          pc, panic, env_vars, hist_vars, last>>

\* IORING_OP_ASYNC_CANCEL: the target is not there (ENOENT), or it is
\* cancelled (the target completes with ECANCELED, then the cancel with 0),
\* or it is running (the cancel completes with EALREADY, the target later).
KernelCancel ==
    /\ pc = "wait"
    /\ \E c \in kernel :
           /\ c.kind = "Cancel"
           /\ LET ts == {e \in kernel : e.user_data = c.target} IN
              IF ts = {}
              THEN /\ kernel' = kernel \ {c}
                   /\ cq' = Append(cq, Cqe(c.user_data, -Errno.ENOENT, <<>>))
                   /\ UNCHANGED marked
              ELSE \E t \in ts :
                   \/ /\ kernel' = kernel \ {c, t}
                      /\ marked' = marked \ {t.user_data}
                      /\ cq' = cq \o <<Cqe(t.user_data, -Errno.ECANCELED, <<>>),
                                       Cqe(c.user_data, 0, <<>>)>>
                   \/ /\ kernel' = kernel \ {c}
                      /\ marked' = marked \cup {t.user_data}
                      /\ cq' = Append(cq, Cqe(c.user_data, -Errno.EALREADY, <<>>))
           /\ UNCHANGED <<cfg_vars, side_vars, sm_vars, next_id, in_progress, submitter, sq, batch,
                          pc, panic, env_vars, hist_vars, last>>

\* An operation a cancel interrupted ends with ECANCELED.
KernelInterrupted ==
    /\ pc = "wait"
    /\ \E e \in kernel :
           /\ e.user_data \in marked
           /\ Complete(e, <<Cqe(e.user_data, -Errno.ECANCELED, <<>>)>>)
           /\ UNCHANGED <<cfg_vars, side_vars, sm_vars, next_id, in_progress, submitter, sq, batch,
                          pc, panic, env_vars, hist_vars, last>>

Next ==
    \/ Start
    \/ LoopHead
    \/ Wait
    \/ Dispatch
    \/ RoundEnd
    \/ KernelReadData
    \/ KernelZero
    \/ KernelWrite
    \/ KernelError
    \/ KernelCancel
    \/ KernelInterrupted

Spec == Init /\ [][Next]_vars

\* ------------------------------------------- a client of the Reactor API
\* with_submitter and run are public: a client may call with_submitter any
\* number of times before it calls run().  The client below has up to
\* MaxClientOps reads to submit, whose continuation does nothing: while it
\* has some left it hands with_submitter a closure that submits k of them
\* (k = 0: a closure that submits nothing), and it calls run() when it likes.
\*
\* next_id is a u64.  with_submitter adds the Submitter's next_id to the
\* Reactor's (self.next_id += reactor_submitter.next_id), which at least
\* doubles it, so that its width matters here: under this client an id is
\* four limbs of 16 bits, most significant first, and the additions are the
\* u64 ones.
Limb == 65536

U64(n) == <<0, 0, 0, n>>

\* The carries out of limbs 4, 3, 2 and 1 of a + b.
u64_carry(a, b) ==
    LET c4 == (a[4] + b[4]) \div Limb
        c3 == (a[3] + b[3] + c4) \div Limb
        c2 == (a[2] + b[2] + c3) \div Limb
        c1 == (a[1] + b[1] + c2) \div Limb
    IN  <<c1, c2, c3, c4>>

\* a + b overflows a u64.
u64_overflows(a, b) == u64_carry(a, b)[1] = 1

\* u64::wrapping_add, what += does in a build without overflow checks.
u64_add(a, b) ==
    LET c == u64_carry(a, b) IN
    <<(a[1] + b[1] + c[2]) % Limb, (a[2] + b[2] + c[3]) % Limb,
      (a[3] + b[3] + c[4]) % Limb, (a[4] + b[4]) % Limb>>

\* a < b on u64.
u64_lt(a, b) ==
    \E i \in 1..4 : a[i] < b[i] /\ \A j \in 1..(i - 1) : a[j] = b[j]

\* Submitter::submit_read on u64 ids.
submit_read_u64(w, fd, len, cb) ==
    [w EXCEPT !.actions = Append(@, Action("Read", fd, <<>>, len, 0, 0, w.next_id, cb)),
              !.next_id = u64_add(@, U64(1))]

\* The closure: k calls of submit_read.
RECURSIVE client(_, _)
client(w, k) ==
    IF k = 0 THEN w
    ELSE client(submit_read_u64(w, UART_FD, DEFAULT_READ_SIZE, "handle_other_ev"), k - 1)

InitCalls ==
    /\ variant = "uart_tty"
    /\ ring_entries \in RingSizes
    /\ tty_state = Processing
    /\ uart_state = Processing
    /\ transcript = NewTranscript(FALSE)
    /\ next_id = U64(1)
    /\ in_progress = NoOps
    /\ submitter = NewSubmitter(U64(1))
    /\ sq = <<>>
    /\ kernel = {}
    /\ marked = {}
    /\ cq = <<>>
    /\ batch = <<>>
    /\ pc = "new"
    /\ panic = ""
    /\ fed = 0
    /\ tty_pos = 0
    /\ uart_pos = 0
    /\ tty_in = <<>>
    /\ uart_out = <<>>
    /\ uart_in = <<>>
    /\ tty_out = <<>>
    /\ cancels = <<>>
    /\ dispatched = {}
    /\ issued = <<>>
    /\ fun_results = <<>>
    /\ fun_calls = 0
    /\ ret = [kind |-> "none", val |-> 0, err |-> ""]
    /\ LogIdle
    /\ QueueIdle
    /\ MainIdle
    /\ last = NoLast

\* Reactor::with_submitter, called before run().  When
\* self.next_id += .. overflows, a build with overflow checks panics and a
\* build without them wraps.
WithSubmitter ==
    /\ pc = "new"
    /\ Len(issued) < MaxClientOps
    /\ \E k \in 0..(MaxClientOps - Len(issued)) :
       LET w == client([World EXCEPT !.actions = <<>>, !.next_id = next_id], k)
           r == SubmitAll(Ring, w.actions)
       IN  \/ /\ u64_overflows(next_id, w.next_id)
              /\ pc' = "panic"
              /\ panic' = "attempt to add with overflow"
              /\ UNCHANGED <<next_id, in_progress, sq, submitter>>
              /\ issued' = issued \o Ids(w.actions)
           \/ /\ next_id' = u64_add(next_id, w.next_id)
              /\ in_progress' = r.in_progress
              /\ sq' = r.sq
              /\ submitter' = [actions |-> <<>>, next_id |-> w.next_id]
              /\ panic' = r.panic
              /\ pc' = IF r.panic # "" THEN "panic" ELSE IF r.err # "" THEN "err" ELSE "new"
              /\ issued' = issued \o Ids(w.actions)
    /\ UNCHANGED <<cfg_vars, side_vars, sm_vars, kernel, marked, cq, batch, env_vars,
                   tty_in, uart_out, uart_in, tty_out, cancels, dispatched,
                   log_appended, log_file, last>>

\* The client calls reactor.run().
Run ==
    /\ pc = "new"
    /\ pc' = "run"
    /\ UNCHANGED <<cfg_vars, side_vars, sm_vars, next_id, in_progress, submitter, sq, kernel,
                   marked, cq, batch, panic, env_vars, hist_vars, last>>

\* The client's continuation looks at neither the result nor the buffer:
\* the kernel answers its reads with end of file.
NextCalls ==
    \/ WithSubmitter
    \/ Run
    \/ LoopHead
    \/ Wait
    \/ Dispatch
    \/ RoundEnd
    \/ KernelZero

SpecCalls == InitCalls /\ [][NextCalls]_vars


\* --------------------------------------- retry_on_eintr (src/reactor.rs)
\* retry_on_eintr(fun) is specified on its own.  fun is a closure the loop
\* calls again and again: the input is what it returns call by call, an
\* Ok(value) or an Err of some ErrorKind, up to MaxFunCalls calls.
MaxFunCalls == 3

ErrorKinds == {"Interrupted", "WouldBlock", "Other"}
FunResults ==
    [kind : {"Ok"}, val : {0, 1}, err : {""}] \cup [kind : {"Err"}, val : {0}, err : ErrorKinds]

\* retry_on_eintr has not returned.
NoRet == [kind |-> "none", val |-> 0, err |-> ""]
Interrupted == [kind |-> "Err", val |-> 0, err |-> "Interrupted"]

\* Every error counts as Interrupted.
kind_is_interrupted_any(x) == x.kind = "Err"

\* Err(e) with e.kind() == ErrorKind::Interrupted
kind_is_interrupted(x) == x.kind = "Err" /\ x.err = "Interrupted"

\* Everything but the state of retry_on_eintr.
reactor_vars ==
    <<cfg_vars, sm_vars, next_id, in_progress, submitter, sq, kernel, marked, cq,
      batch, pc, panic, env_vars, hist_vars, last>>

InitEintr ==
    /\ variant = "uart_tty"
    /\ ring_entries = 1
    /\ tty_state = Processing
    /\ uart_state = Processing
    /\ transcript = NewTranscript(FALSE)
    /\ next_id = 1
    /\ in_progress = NoOps
    /\ submitter = NewSubmitter(1)
    /\ sq = <<>>
    /\ kernel = {}
    /\ marked = {}
    /\ cq = <<>>
    /\ batch = <<>>
    /\ pc = "new"
    /\ panic = ""
    /\ fed = 0
    /\ tty_pos = 0
    /\ uart_pos = 0
    /\ tty_in = <<>>
    /\ uart_out = <<>>
    /\ uart_in = <<>>
    /\ tty_out = <<>>
    /\ cancels = <<>>
    /\ dispatched = {}
    /\ issued = <<>>
    /\ last = NoLast
    /\ fun_results \in UNION {[1..n -> FunResults] : n \in 1..MaxFunCalls}
    /\ fun_calls = 0
    /\ ret = NoRet
    /\ LogIdle
    /\ QueueIdle
    /\ MainIdle

\* One turn of the loop: call fun; on an Interrupted error go round again,
\* return anything else.
RetryLoop ==
    /\ ret = NoRet
    /\ fun_calls < Len(fun_results)
    /\ LET x == fun_results[fun_calls + 1] IN
       /\ fun_calls' = fun_calls + 1
       /\ ret' = IF kind_is_interrupted(x) THEN NoRet ELSE x
    /\ UNCHANGED <<reactor_vars, fun_results, log_vars, bq_vars, main_vars>>

NextEintr ==
    \/ RetryLoop

SpecEintr == InitEintr /\ [][NextEintr]_vars

\* ------------------------------------- the transcript (src/transcript.rs)
\* The transcript driven on its own, the way the tests at the end of
\* transcript.rs drive it: a caller appends buffers with log_to_transcript,
\* calls start_transcript_teardown once, after its last append, and the
\* write the Submitter holds completes with some count, which runs
\* handle_buffer_ev.  The Submitter's actions are the writes in flight.
MaxAppends == 4

\* A short write happens at most this many times.
MaxShortWrites == 1

\* The sizes appended: a large one (two of them are more than the buffer
\* holds), a small one that fills the buffer to the last byte together
\* with the large one (4090 + 6), and one that is 4 bytes more than what
\* the large one leaves free (4090 + 10).
LogSizes == {6, 10, TRANSCRIPT_BUFFER_SIZE - 6}

\* The k-th byte appended, so that a byte out of place shows.
LogByte(k) == k % 251

\* The n bytes appended after the first pos.
LogBytes(pos, n) == [i \in 1..n |-> LogByte(pos + i)]

\* The completions among done that wrote less than the buffer.
ShortWrites(done) == {i \in 1..Len(done) : done[i].result < done[i].len}

\* The counts a write of len bytes can complete with: all of it, or the
\* first byte only.
WriteResults(len) ==
    {len} \cup (IF Cardinality(ShortWrites(log_done)) < MaxShortWrites THEN {1} ELSE {})

InitLog ==
    /\ variant = "uart_tty"
    /\ ring_entries = 1
    /\ tty_state = Processing
    /\ uart_state = Processing
    /\ transcript = NewTranscript(TRUE)
    /\ next_id = 1
    /\ in_progress = NoOps
    /\ submitter = NewSubmitter(1)
    /\ sq = <<>>
    /\ kernel = {}
    /\ marked = {}
    /\ cq = <<>>
    /\ batch = <<>>
    /\ pc = "log"
    /\ panic = ""
    /\ fed = 0
    /\ tty_pos = 0
    /\ uart_pos = 0
    /\ tty_in = <<>>
    /\ uart_out = <<>>
    /\ uart_in = <<>>
    /\ tty_out = <<>>
    /\ cancels = <<>>
    /\ dispatched = {}
    /\ issued = <<>>
    /\ last = NoLast
    /\ fun_results = <<>>
    /\ fun_calls = 0
    /\ ret = NoRet
    /\ LogIdle
    /\ QueueIdle
    /\ MainIdle

\* What the transcript's specification leaves alone.
log_frame ==
    <<cfg_vars, eintr_vars, bq_vars, main_vars, tty_state, uart_state, next_id, in_progress, sq, kernel,
      marked, cq, batch, env_vars, tty_in, uart_out, uart_in, tty_out, cancels,
      dispatched, log_appended, log_file>>

\* The effect of a call that ended in w and submitted the actions new.
LogCall(name, result, buf, w, new) ==
    /\ transcript' = w.transcript
    /\ submitter' = [actions |-> w.actions, next_id |-> w.next_id]
    /\ panic' = w.panic
    /\ pc' = IF w.panic # "" THEN "panic" ELSE "log"
    /\ issued' = issued \o Ids(new)
    /\ last' = [NoLast EXCEPT !.cb = name, !.result = result, !.buf = buf,
                              !.pre_transcript = transcript, !.new = new]

\* log_to_transcript(reactor, transcript, buf)
LogAppend ==
    /\ pc = "log"
    /\ ~log_torn
    /\ log_appends < MaxAppends
    /\ \E n \in LogSizes :
          LET w == log_to_transcript(World, LogBytes(log_count, n)) IN
          /\ LogCall("log_to_transcript", n, LogBytes(log_count, n), w, NewActions(w))
          /\ log_count' = log_count + n
    /\ log_appends' = log_appends + 1
    /\ UNCHANGED <<log_frame, log_torn, log_done>>

\* start_transcript_teardown(reactor, transcript)
LogTeardown ==
    /\ pc = "log"
    /\ ~log_torn
    /\ LET w == start_transcript_teardown(World) IN
       LogCall("start_transcript_teardown", 0, <<>>, w, NewActions(w))
    /\ log_torn' = TRUE
    /\ UNCHANGED <<log_frame, log_count, log_appends, log_done>>

\* The write in flight completes with n > 0 bytes written.
LogWriteDone ==
    /\ pc = "log"
    /\ submitter.actions # <<>>
    /\ LET a == Head(submitter.actions) IN
       \E n \in WriteResults(a.len) :
          /\ n > 0
          /\ LET w == handle_buffer_ev([World EXCEPT !.actions = Tail(@)], n, a.buf) IN
             LogCall("handle_buffer_ev", n, a.buf, w,
                     SubSeq(w.actions, Len(submitter.actions), Len(w.actions)))
          /\ log_done' = Append(log_done, [offset |-> a.offset, result |-> n, len |-> a.len])
    /\ UNCHANGED <<log_frame, log_count, log_appends, log_torn>>

\* The write in flight completes with 0 or with an error.
LogWriteFails ==
    /\ pc = "log"
    /\ submitter.actions # <<>>
    /\ LET a == Head(submitter.actions) IN
       \E r \in {0, -Errno.EIO} :
          /\ LET w == handle_buffer_ev([World EXCEPT !.actions = Tail(@)], r, a.buf) IN
             LogCall("handle_buffer_ev", r, a.buf, w,
                     SubSeq(w.actions, Len(submitter.actions), Len(w.actions)))
          /\ log_done' = Append(log_done, [offset |-> a.offset, result |-> r, len |-> a.len])
    /\ UNCHANGED <<log_frame, log_count, log_appends, log_torn>>

NextLog ==
    \/ LogAppend
    \/ LogTeardown
    \/ LogWriteDone
    \/ LogWriteFails

SpecLog == InitLog /\ [][NextLog]_vars

\* ---------------------------------------------- BufQueue (src/bufqueue.rs)
\* The partial-write queue driven on its own: a caller makes up to
\* MaxQueueCalls calls of try_write_or_enqueue and flush, with buffers of the
\* sizes in BufSizes, and the sink answers each write as it likes (when the
\* sink is not called its behaviour is left at "full").
MaxQueueCalls == 4

MAX_BUF_SIZE == 4096

\* The sizes of the buffers given: none, a small one (two of them stay
\* under MAX_BUF_SIZE together), and one that reaches MAX_BUF_SIZE together
\* with the small one (4094 + 2).
BufSizes == {0, 2, MAX_BUF_SIZE - 2}

\* io::Result<usize> of Write::write
WriteOk(n) == [kind |-> "Ok", val |-> n, err |-> ""]
WriteErr(k) == [kind |-> "Err", val |-> 0, err |-> k]

\* What the sink does with a write: it takes all of the buffer, its first
\* byte, or nothing, or it fails with WouldBlock or with another error.
SinkBehaviours == {"full", "one", "zero", "WouldBlock", "Other"}

\* writable.write(buf) of a sink that behaves as b.
SinkWrite(b, buf) ==
    CASE b = "full" -> WriteOk(Len(buf))
      [] b = "one" -> WriteOk(IF Len(buf) >= 1 THEN 1 ELSE 0)
      [] b = "zero" -> WriteOk(0)
      [] b = "WouldBlock" -> WriteErr("WouldBlock")
      [] OTHER -> WriteErr("Other")

\* BufQueue::enqueue
enqueue(q, buf) ==
    IF q.queue = <<>> THEN [q EXCEPT !.queue = Append(@, buf)]
    ELSE IF Len(Head(q.queue)) + Len(buf) < MAX_BUF_SIZE
    THEN [q EXCEPT !.queue[1] = @ \o buf]
    ELSE [q EXCEPT !.queue = Append(@, buf)]

\* The outcome of a call: the queue after it, what it returned and the
\* writes it made on the sink, in order.
QueueOutcome(q, res, calls) == [q |-> q, ret |-> res, calls |-> calls]

\* try_write_or_enqueue that writes to the sink whatever the queue holds.
try_write_or_enqueue_always(q, buf, b) ==
    LET r == SinkWrite(b, buf)
        calls == <<[arg |-> buf, res |-> r]>>
    IN  IF r.kind = "Ok" /\ r.val = Len(buf) THEN QueueOutcome(q, "Ok", calls)
        ELSE IF r.kind = "Ok"
        THEN QueueOutcome(enqueue(q, SubSeq(buf, r.val + 1, Len(buf))), "Ok", calls)
        ELSE IF r.err = "WouldBlock" THEN QueueOutcome(enqueue(q, buf), "Ok", calls)
        ELSE QueueOutcome(q, "Err", calls)

\* try_write_or_enqueue that enqueues the whole buffer after a short write.
try_write_or_enqueue_whole(q, buf, b) ==
    IF q.queue # <<>> THEN QueueOutcome(enqueue(q, buf), "Ok", <<>>)
    ELSE
        LET r == SinkWrite(b, buf)
            calls == <<[arg |-> buf, res |-> r]>>
        IN  IF r.kind = "Ok" /\ r.val = Len(buf) THEN QueueOutcome(q, "Ok", calls)
            ELSE IF r.kind = "Ok" THEN QueueOutcome(enqueue(q, buf), "Ok", calls)
            ELSE IF r.err = "WouldBlock" THEN QueueOutcome(enqueue(q, buf), "Ok", calls)
            ELSE QueueOutcome(q, "Err", calls)

\* BufQueue::try_write_or_enqueue, the sink behaving as b
try_write_or_enqueue(q, buf, b) ==
    IF q.queue # <<>> THEN QueueOutcome(enqueue(q, buf), "Ok", <<>>)
    ELSE
        LET r == SinkWrite(b, buf)
            calls == <<[arg |-> buf, res |-> r]>>
        IN  IF r.kind = "Ok" /\ r.val = Len(buf) THEN QueueOutcome(q, "Ok", calls)
            ELSE IF r.kind = "Ok"
            THEN QueueOutcome(enqueue(q, SubSeq(buf, r.val + 1, Len(buf))), "Ok", calls)
            ELSE IF r.err = "WouldBlock" THEN QueueOutcome(enqueue(q, buf), "Ok", calls)
            ELSE QueueOutcome(q, "Err", calls)

\* flush that goes round again after a short write.
RECURSIVE flush_spins(_, _, _)
flush_spins(q, script, calls) ==
    IF q.queue = <<>> \/ script = <<>> THEN QueueOutcome(q, "Ok", calls)
    ELSE
        LET buf == SubSeq(Head(q.queue), q.written + 1, Len(Head(q.queue)))
            r == SinkWrite(Head(script), buf)
            now == Append(calls, [arg |-> buf, res |-> r])
        IN  IF r.kind = "Ok" /\ r.val = Len(buf)
            THEN flush_spins([queue |-> Tail(q.queue), written |-> 0], Tail(script), now)
            ELSE IF r.kind = "Ok"
            THEN flush_spins([q EXCEPT !.written = @ + r.val], Tail(script), now)
            ELSE IF r.err = "WouldBlock" THEN QueueOutcome(q, "Ok", now)
            ELSE QueueOutcome(q, "Err", now)

\* BufQueue::flush, the sink behaving as script says, write after write
RECURSIVE flush(_, _, _)
flush(q, script, calls) ==
    IF q.queue = <<>> THEN QueueOutcome(q, "Ok", calls)
    ELSE IF q.written > Len(Head(q.queue))
    THEN QueueOutcome(q, "panic", calls)
    ELSE
        LET buf == SubSeq(Head(q.queue), q.written + 1, Len(Head(q.queue)))
            r == SinkWrite(Head(script), buf)
            now == Append(calls, [arg |-> buf, res |-> r])
        IN  IF r.kind = "Ok" /\ r.val = Len(buf)
            THEN flush([queue |-> Tail(q.queue), written |-> 0], Tail(script), now)
            ELSE IF r.kind = "Ok"
            THEN QueueOutcome([q EXCEPT !.written = @ + r.val], "Ok", now)
            ELSE IF r.err = "WouldBlock" THEN QueueOutcome(q, "Ok", now)
            ELSE QueueOutcome(q, "Err", now)

\* The bytes the sink accepted in calls.
RECURSIVE Accepted(_)
Accepted(calls) ==
    IF calls = <<>> THEN <<>>
    ELSE (IF Head(calls).res.kind = "Ok" THEN Take(Head(calls).arg, Head(calls).res.val)
          ELSE <<>>) \o Accepted(Tail(calls))

InitQueue ==
    /\ variant = "uart_tty"
    /\ ring_entries = 1
    /\ tty_state = Processing
    /\ uart_state = Processing
    /\ transcript = NewTranscript(FALSE)
    /\ next_id = 1
    /\ in_progress = NoOps
    /\ submitter = NewSubmitter(1)
    /\ sq = <<>>
    /\ kernel = {}
    /\ marked = {}
    /\ cq = <<>>
    /\ batch = <<>>
    /\ pc = "new"
    /\ panic = ""
    /\ fed = 0
    /\ tty_pos = 0
    /\ uart_pos = 0
    /\ tty_in = <<>>
    /\ uart_out = <<>>
    /\ uart_in = <<>>
    /\ tty_out = <<>>
    /\ cancels = <<>>
    /\ dispatched = {}
    /\ issued = <<>>
    /\ last = NoLast
    /\ fun_results = <<>>
    /\ fun_calls = 0
    /\ ret = NoRet
    /\ LogIdle
    /\ QueueIdle
    /\ MainIdle

\* The effect of a call that had the outcome o.
QueueCall(name, buf, o) ==
    /\ bufq' = o.q
    /\ sink_out' = sink_out \o Accepted(o.calls)
    /\ bq_calls' = bq_calls + 1
    /\ bq_last' = [op |-> name, buf |-> buf, pre |-> bufq, calls |-> o.calls, ret |-> o.ret]
    /\ bq_failed' = (bq_failed \/ o.ret # "Ok")

\* queue.try_write_or_enqueue(buf, sink)
QueueTryWrite ==
    /\ bq_calls < MaxQueueCalls
    /\ \E n \in BufSizes : \E b \in (IF bufq.queue = <<>> THEN SinkBehaviours ELSE {"full"}) :
          LET buf == LogBytes(bq_count, n) IN
          /\ QueueCall("try_write_or_enqueue", buf, try_write_or_enqueue(bufq, buf, b))
          /\ bq_count' = bq_count + n
    /\ UNCHANGED <<reactor_vars, eintr_vars, log_vars, main_vars>>

\* The sink's answers to the writes of one flush, one for each buffer in the
\* queue; after an answer other than "full" the rest is not looked at, and
\* is "full".
SinkScripts(n) ==
    {script \in [1..n -> SinkBehaviours] :
        \A i \in 1..n : \A j \in (i + 1)..n : script[i] # "full" => script[j] = "full"}

\* queue.flush(sink)
QueueFlush ==
    /\ bq_calls < MaxQueueCalls
    /\ \E script \in SinkScripts(Len(bufq.queue)) :
          QueueCall("flush", <<>>, flush(bufq, script, <<>>))
    /\ UNCHANGED <<reactor_vars, eintr_vars, log_vars, main_vars, bq_count>>

NextQueue ==
    \/ QueueTryWrite
    \/ QueueFlush

SpecQueue == InitQueue /\ [][NextQueue]_vars

\* ------------------------------------------------- main (src/main.rs)
\* The program around the poll loop: main calls mainloop, whose Part 1
\* creates the log file, the UartTty object (which captures and overwrites
\* the settings of the console and of the UART) and the poll set, and whose
\* loop goes through Part 2 (poll), Part 3 (read and write or enqueue),
\* Part 4 (flush the queues) and Part 5 (reregister).  The environment
\* chooses which system call fails, what poll reports, how much each read
\* delivers and what the writes accept.  read_from_tty, read_from_uart,
\* write_to_uart and write_to_tty of main's UartTty are not in src/: a read
\* delivers a buffer or fails (read_from_tty may answer Action::Quit), and
\* a write behaves like the sink of a BufQueue.
MaxIterations == 2

BUFFER_SIZE == 4096

\* The sizes of the buffers read: a read fills the read buffer, so that a
\* buffer that is queued is never merged with its neighbour and a queue may
\* hold several (the merging of small buffers is SpecQueue's matter).
MainSizes == {BUFFER_SIZE}

\* The bytes of a read of n bytes (a test pattern).
MainBytes(n) == LogBytes(0, n)

\* The steps of UartTty::new that may fail.
NewFails == {"none", "open", "get_tty", "set_tty", "get_uart", "set_uart"}

\* What may fail of the poll set's creation in Part 1.
PollFails == {"none", "new", "register_tty", "register_uart"}

READABLE == {"R"}
WRITABLE == {"W"}

\* update_tty_settings and update_uart_settings: a fixed profile.
update_tty_settings(orig) == RAW
update_uart_settings(orig) == RAW

\* set_tty_settings(fd, settings) on the devices t: tcflush and tcsetattr
\* succeed (ok) and the device has the settings, or one of them fails and
\* the device is as it was.
set_tty_settings(t, fd, settings, ok) ==
    IF ok THEN [t EXCEPT ![fd] = settings] ELSE t

\* UartTty::new on the devices t, the step fail failing ("none": no step).
\* Every step is followed by `?`: a failure returns at once.
UartTty_new(t, fail) ==
    IF fail \in {"open", "get_tty", "set_tty"}
    THEN [termios |-> t, obj |-> NoUartTty, ok |-> FALSE]
    ELSE
        LET tty_settings == t[TTY_FD]
            t1 == set_tty_settings(t, TTY_FD, update_tty_settings(tty_settings), TRUE)
        IN  IF fail \in {"get_uart", "set_uart"}
            THEN [termios |-> t1, obj |-> NoUartTty, ok |-> FALSE]
            ELSE
                LET uart_settings == t1[UART_FD]
                    t2 == set_tty_settings(t1, UART_FD,
                                           update_uart_settings(uart_settings), TRUE)
                IN  [termios |-> t2,
                     obj |-> [present |-> TRUE, tty_settings |-> tty_settings,
                              uart_settings |-> uart_settings],
                     ok |-> TRUE]

\* impl Drop for UartTty: both settings are set back, the second also when
\* the first call failed.
drop_UartTty(obj, t, ok_tty, ok_uart) ==
    LET t1 == set_tty_settings(t, TTY_FD, obj.tty_settings, ok_tty)
        t2 == set_tty_settings(t1, UART_FD, obj.uart_settings, ok_uart)
    IN  [termios |-> t2,
         calls |-> <<[fd |-> TTY_FD, ok |-> ok_tty], [fd |-> UART_FD, ok |-> ok_uart]>>]

\* The status of the process when main has printed its line for mainloop's
\* result res: main returns (), for Ok and for Err.
ExitStatus(res) == 0

\* Part 5 registers READABLE only for an endpoint whatever its queue holds.
InterestFor_readable(q) == READABLE

\* Part 5: the interest for an endpoint whose queue is q.
InterestFor(q) ==
    IF q.queue = <<>> THEN READABLE ELSE READABLE \cup WRITABLE

flush_queue(q, script, calls) == flush(q, script, calls)

InitMain ==
    /\ variant = "uart_tty"
    /\ ring_entries = 1
    /\ tty_state = Processing
    /\ uart_state = Processing
    /\ transcript = NewTranscript(FALSE)
    /\ next_id = 1
    /\ in_progress = NoOps
    /\ submitter = NewSubmitter(1)
    /\ sq = <<>>
    /\ kernel = {}
    /\ marked = {}
    /\ cq = <<>>
    /\ batch = <<>>
    /\ pc = "new"
    /\ panic = ""
    /\ fed = 0
    /\ tty_pos = 0
    /\ uart_pos = 0
    /\ tty_in = <<>>
    /\ uart_out = <<>>
    /\ uart_in = <<>>
    /\ tty_out = <<>>
    /\ cancels = <<>>
    /\ dispatched = {}
    /\ issued = <<>>
    /\ last = NoLast
    /\ fun_results = <<>>
    /\ fun_calls = 0
    /\ ret = NoRet
    /\ LogIdle
    /\ QueueIdle
    /\ MainIdle

main_frame == <<reactor_vars, eintr_vars, log_vars, bq_vars>>

\* mainloop returns res: its locals are dropped (the poll set, the UartTty
\* object obj with the devices at t, the log file), and main is back.
MainloopReturns(res, obj, t) ==
    /\ \E ok_tty \in BOOLEAN : \E ok_uart \in (IF obj.present THEN BOOLEAN ELSE {TRUE}) :
          LET d == IF obj.present THEN drop_UartTty(obj, t, ok_tty, ok_uart)
                   ELSE [termios |-> t, calls |-> <<>>]
          IN  /\ termios' = d.termios
              /\ restores' = d.calls
    /\ uart_obj' = NoUartTty
    /\ m_ret' = res
    /\ m_pc' = "returned"
    /\ poll_results' = NoPollResults
    /\ bufs_to_write_tty' = NewBufQueue
    /\ bufs_to_write_uart' = NewBufQueue
    /\ interest' = NoInterest
    /\ UNCHANGED exit_status

\* Part 1 of mainloop: Logfile::new, UartTty::new, Poll::new and the two
\* register calls, each followed by `?`.
MainPart1 ==
    /\ m_pc = "start"
    /\ \E lf_ok \in BOOLEAN : \E fail \in NewFails : \E pf \in PollFails :
          LET r == UartTty_new(termios, fail) IN
          /\ uart_new' = IF lf_ok THEN fail ELSE "logfile"
          /\ IF ~lf_ok THEN MainloopReturns("Err", NoUartTty, termios)
             ELSE IF ~r.ok THEN MainloopReturns("Err", NoUartTty, r.termios)
             ELSE IF pf # "none" THEN MainloopReturns("Err", r.obj, r.termios)
             ELSE /\ termios' = r.termios
                  /\ uart_obj' = r.obj
                  /\ interest' = [tty |-> READABLE, uart |-> READABLE]
                  /\ m_pc' = "part2"
                  /\ UNCHANGED <<restores, m_ret, exit_status, poll_results,
                                 bufs_to_write_tty, bufs_to_write_uart>>
    /\ UNCHANGED <<main_frame, m_iter>>

\* What poll may report.
PollResults ==
    [tty_readable : BOOLEAN, tty_writable : BOOLEAN,
     uart_readable : BOOLEAN, uart_writable : BOOLEAN]

\* Part 2: poll.  Interrupted goes round again, another error returns.
MainPart2 ==
    /\ m_pc = "part2"
    /\ m_iter < MaxIterations
    /\ m_iter' = m_iter + 1
    /\ \E p \in {"Ok", "Interrupted", "Err"} :
          CASE p = "Interrupted" ->
                 UNCHANGED <<m_pc, termios, uart_obj, restores, m_ret, exit_status,
                             poll_results, bufs_to_write_tty, bufs_to_write_uart,
                             interest>>
            [] p = "Err" -> MainloopReturns("Err", uart_obj, termios)
            [] OTHER ->
                 /\ \E results \in PollResults : poll_results' = results
                 /\ m_pc' = "part3"
                 /\ UNCHANGED <<termios, uart_obj, restores, m_ret, exit_status,
                                bufs_to_write_tty, bufs_to_write_uart, interest>>
    /\ UNCHANGED <<main_frame, uart_new>>

\* Part 3 for the console: if it is readable, read_from_tty fails, answers
\* Quit or delivers a buffer, which goes to the UART or into its queue q.
\* ret is "go" when mainloop goes on, else what it returns.
Part3Tty(q, readable) ==
    IF ~readable THEN {[q |-> q, ret |-> "go"]}
    ELSE {[q |-> q, ret |-> "Ok"], [q |-> q, ret |-> "Err"]}
         \cup {LET o == try_write_or_enqueue(q, MainBytes(n), b)
               IN  [q |-> o.q, ret |-> IF o.ret = "Ok" THEN "go" ELSE "Err"] :
                   n \in MainSizes, b \in SinkBehaviours}

\* Part 3 for the UART: if it is readable, read_from_uart fails or delivers
\* a buffer, which is logged (logfile.log may fail) and goes to the console
\* or into its queue q.
Part3Uart(q, readable) ==
    IF ~readable THEN {[q |-> q, ret |-> "go"]}
    ELSE {[q |-> q, ret |-> "Err"]}
         \cup {LET o == try_write_or_enqueue(q, MainBytes(n), b)
               IN  [q |-> o.q, ret |-> IF o.ret = "Ok" THEN "go" ELSE "Err"] :
                   n \in MainSizes, b \in SinkBehaviours}

\* Part 3: read from the endpoints that are readable.
MainPart3 ==
    /\ m_pc = "part3"
    /\ \E a \in Part3Tty(bufs_to_write_uart, poll_results.tty_readable) :
          IF a.ret # "go" THEN MainloopReturns(a.ret, uart_obj, termios)
          ELSE \E b \in Part3Uart(bufs_to_write_tty, poll_results.uart_readable) :
                  IF b.ret # "go" THEN MainloopReturns(b.ret, uart_obj, termios)
                  ELSE /\ bufs_to_write_uart' = a.q
                       /\ bufs_to_write_tty' = b.q
                       /\ m_pc' = "part4"
                       /\ UNCHANGED <<termios, uart_obj, restores, m_ret, exit_status,
                                      poll_results, interest>>
    /\ UNCHANGED <<main_frame, uart_new, m_iter>>

\* Part 4 for one endpoint: if it is writable its queue q is flushed.
Part4(q, writable) ==
    IF ~writable THEN {[q |-> q, ret |-> "Ok"]}
    ELSE {LET o == flush_queue(q, script, <<>>) IN [q |-> o.q, ret |-> o.ret] :
              script \in SinkScripts(Len(q.queue))}

\* Part 4: write what the queues hold to the endpoints that are writable.
MainPart4 ==
    /\ m_pc = "part4"
    /\ \E a \in Part4(bufs_to_write_tty, poll_results.tty_writable) :
          IF a.ret # "Ok" THEN MainloopReturns("Err", uart_obj, termios)
          ELSE \E b \in Part4(bufs_to_write_uart, poll_results.uart_writable) :
                  IF b.ret # "Ok" THEN MainloopReturns("Err", uart_obj, termios)
                  ELSE /\ bufs_to_write_tty' = a.q
                       /\ bufs_to_write_uart' = b.q
                       /\ m_pc' = "part5"
                       /\ UNCHANGED <<termios, uart_obj, restores, m_ret, exit_status,
                                      poll_results, interest>>
    /\ UNCHANGED <<main_frame, uart_new, m_iter>>

\* Part 5: both endpoints are registered again, each call followed by `?`.
MainPart5 ==
    /\ m_pc = "part5"
    /\ \E failed \in {"none", "tty", "uart"} :
          IF failed # "none" THEN MainloopReturns("Err", uart_obj, termios)
          ELSE /\ interest' = [tty |-> InterestFor(bufs_to_write_tty),
                               uart |-> InterestFor(bufs_to_write_uart)]
               /\ poll_results' = NoPollResults
               /\ m_pc' = "part2"
               /\ UNCHANGED <<termios, uart_obj, restores, m_ret, exit_status,
                              bufs_to_write_tty, bufs_to_write_uart>>
    /\ UNCHANGED <<main_frame, uart_new, m_iter>>

\* main: the line for mainloop's result is printed and main returns.
MainExit ==
    /\ m_pc = "returned"
    /\ exit_status' = ExitStatus(m_ret)
    /\ m_pc' = "exited"
    /\ UNCHANGED <<main_frame, termios, uart_obj, uart_new, restores, m_ret,
                   poll_results, bufs_to_write_tty, bufs_to_write_uart, interest,
                   m_iter>>

NextMain ==
    \/ MainPart1
    \/ MainPart2
    \/ MainPart3
    \/ MainPart4
    \/ MainPart5
    \/ MainExit

SpecMain == InitMain /\ [][NextMain]_vars

\* ------------------------------------------------------------- observers
\* What the properties below read off the state.  last describes the
\* completion dispatched last in the current round: the continuation, the
\* result and the buffer it got, both directions' states and the transcript
\* before the call, and the operations the call submitted.
BridgeCbs == {"tty_read_done", "uart_write_done", "uart_read_done", "tty_write_done"}
WriteCbs == {"uart_write_done", "tty_write_done"}
TtyCbs == {"tty_read_done", "uart_write_done"}
Down == {"TearDown", "TornDown"}

HasByte(buf, b) == b \in {buf[i] : i \in 1..Len(buf)}

\* The direction last.cb belongs to, and the other one, before and after.
OwnPre == IF last.cb \in TtyCbs THEN last.pre_tty ELSE last.pre_uart
OwnNow == IF last.cb \in TtyCbs THEN tty_state ELSE uart_state
OtherPre == IF last.cb \in TtyCbs THEN last.pre_uart ELSE last.pre_tty
OtherNow == IF last.cb \in TtyCbs THEN uart_state ELSE tty_state

\* Operations submitted that the kernel has not completed yet.
Unfinished ==
    kernel \cup {sq[i] : i \in 1..Len(sq)}
           \cup {submitter.actions[i] : i \in 1..Len(submitter.actions)}

\* The reads and writes on the two endpoints among actions, and the cancels.
EndpointOps(actions) ==
    {actions[i] : i \in {j \in 1..Len(actions) :
        actions[j].kind \in {"Read", "Write"} /\ actions[j].fd \in {TTY_FD, UART_FD}}}
CancelOps(actions) ==
    {actions[i] : i \in {j \in 1..Len(actions) : actions[j].kind = "Cancel"}}

\* The teardown has started: start_uart_teardown moves both directions.
InTeardown == tty_state.tag \in Down
\* It started in the continuation dispatched last.
TeardownStarts ==
    /\ last.cb \in BridgeCbs
    /\ last.pre_tty.tag \notin Down
    /\ tty_state.tag \in Down

\* ------------------------------------------------------------------- C1
\* C1: echo fidelity.  As long as no console read buffer held CONTROL_O, the
\* bytes the UART accepted from writes are a prefix of the bytes handed to
\* tty_read_done, in order, and they are all of them whenever the console
\* direction is in Reading; the bytes the console accepted are a prefix of
\* the bytes handed to uart_read_done, and all of them whenever the UART
\* direction is in Reading.
C1_EchoFidelity ==
    /\ ~HasByte(tty_in, CONTROL_O) =>
          /\ IsPrefix(uart_out, tty_in)
          /\ (tty_state.tag = "Reading" => uart_out = tty_in)
    /\ IsPrefix(tty_out, uart_in)
    /\ (uart_state.tag = "Reading" => tty_out = uart_in)

\* Both directions have forwarded data and are reading again.
C1_Witness ==
    /\ tty_state.tag = "Reading" /\ uart_state.tag = "Reading"
    /\ Len(tty_in) > 0 /\ uart_out = tty_in
    /\ Len(uart_in) > 0 /\ tty_out = uart_in
    /\ ~HasByte(tty_in, CONTROL_O)

\* ------------------------------------------------------------------- C2
\* A write completion with 0 < n < len(buffer), the direction in Writing.
ShortWrite ==
    /\ last.cb \in WriteCbs
    /\ OwnPre.tag = "Writing"
    /\ 0 < last.result /\ last.result < Len(last.buf)

\* C2: short-write convergence.  A write completion with 0 < n < len(buffer)
\* submits exactly one operation, a write to the same endpoint of exactly
\* buffer[n..], and the direction is in Writing with that operation.  While a
\* direction is in Writing, the bytes its endpoint accepted followed by the
\* buffer of its unfinished write are the bytes read so far (none repeated,
\* none dropped), and when a write continuation submits the direction's next
\* read, all bytes read have been accepted.
C2_ShortWrite ==
    /\ ShortWrite =>
          /\ Len(last.new) = 1
          /\ last.new[1].kind = "Write"
          /\ last.new[1].fd = (IF last.cb = "uart_write_done" THEN UART_FD ELSE TTY_FD)
          /\ last.new[1].buf = SubSeq(last.buf, last.result + 1, Len(last.buf))
          /\ OwnNow = Writing(last.new[1].user_data)
          /\ panic = ""
    /\ \A e \in Unfinished :
          /\ (e.kind = "Write" /\ e.fd = UART_FD /\ tty_state = Writing(e.user_data))
                => uart_out \o e.buf = tty_in
          /\ (e.kind = "Write" /\ e.fd = TTY_FD /\ uart_state = Writing(e.user_data))
                => tty_out \o e.buf = uart_in
    /\ (last.cb \in WriteCbs /\ \E a \in EndpointOps(last.new) : a.kind = "Read") =>
          IF last.cb = "uart_write_done" THEN uart_out = tty_in ELSE tty_out = uart_in

\* The UART accepted the first byte of a two-byte console read and the
\* continuation has resubmitted the rest.
C2_Witness ==
    /\ ShortWrite
    /\ last.cb = "uart_write_done"
    /\ last.result = 1 /\ Len(last.buf) = 2
    /\ tty_state.tag = "Writing"

\* ------------------------------------------------------------------- C3
\* A console read, the direction in Reading, whose buffer holds CONTROL_O.
SentinelRead ==
    /\ last.cb = "tty_read_done"
    /\ last.pre_tty.tag = "Reading"
    /\ HasByte(last.buf, CONTROL_O)

\* C3: the quit sentinel suppresses forwarding.  The continuation of a
\* console read whose buffer holds CONTROL_O at any place submits no write
\* to the UART and leaves both directions in teardown; no write to the UART,
\* unfinished or in flight, carries CONTROL_O, and the UART never accepts it.
C3_QuitSentinel ==
    /\ SentinelRead =>
          /\ \A a \in EndpointOps(last.new) : ~(a.kind = "Write" /\ a.fd = UART_FD)
          /\ tty_state.tag \in Down /\ uart_state.tag \in Down
          /\ panic = ""
    /\ \A e \in Unfinished : (e.kind = "Write" /\ e.fd = UART_FD) => ~HasByte(e.buf, CONTROL_O)
    /\ \A id \in DOMAIN in_progress :
          in_progress[id].cb = "uart_write_done" => ~HasByte(in_progress[id].buf, CONTROL_O)
    /\ ~HasByte(uart_out, CONTROL_O)

\* A two-byte console read with CONTROL_O as its second byte was handled.
C3_Witness ==
    /\ SentinelRead
    /\ Len(last.buf) = 2 /\ last.buf[2] = CONTROL_O /\ last.buf[1] # CONTROL_O
    /\ tty_state = TornDown

\* ------------------------------------------------------------------- C4
\* C4: disconnect detection reaches the terminal state.  In the bridge of
\* uart_tty.rs, when no console read held CONTROL_O, the teardown starts on a
\* zero-byte result only; the claim is that both directions then reach
\* TornDown.  Once run() has returned nothing is in flight and no
\* continuation runs again, so that both directions are TornDown by then.
C4_BothTornDown ==
    (pc = "done" /\ variant = "uart_tty" /\ ~HasByte(tty_in, CONTROL_O))
        => (tty_state = TornDown /\ uart_state = TornDown)

\* ------------------------------------------------------------------- C5
\* C5: cancellation on teardown.  The continuation that starts the teardown
\* is in Processing itself: its direction becomes TornDown and gets no
\* cancel.  The other direction, in Reading(op) or Writing(op), gets exactly
\* one cancel, with target op, and becomes TearDown(id of that cancel).  Both
\* directions enter the teardown together, no operation is the target of two
\* cancels over the run, and once the teardown has started no continuation
\* submits a read or a write on an endpoint.
C5_Cancellation ==
    /\ TeardownStarts =>
          /\ OwnNow = TornDown
          /\ OtherPre.tag \in {"Reading", "Writing"}
          /\ \E c \in CancelOps(last.new) :
                /\ CancelOps(last.new) = {c}
                /\ c.target = OtherPre.id
                /\ OtherNow = TearDown(c.user_data)
          /\ Len(CancelTargets(last.new)) = 1
    /\ (tty_state.tag \in Down) = (uart_state.tag \in Down)
    /\ \A i, j \in 1..Len(cancels) : i # j => cancels[i] # cancels[j]
    /\ (last.cb # "none" /\ InTeardown) => EndpointOps(last.new) = {}
    /\ ~InTeardown => cancels = <<>>

\* The teardown started while the other direction had a write in flight.
C5_Witness ==
    /\ TeardownStarts
    /\ OtherPre.tag = "Writing"
    /\ OtherNow.tag = "TearDown"
    /\ Len(cancels) = 1

\* ------------------------------------------------------------------- C6
\* C6: the run terminates after a teardown trigger.  In the bridge of
\* uart_tty.rs the teardown starts on the quit sentinel or a zero-byte
\* result only; the claim is that run() then returns Ok, so that it ends
\* neither in a panic nor with Err.
C6_RunReturnsOk ==
    (variant = "uart_tty" /\ InTeardown) => pc \notin {"panic", "err"}

\* ------------------------------------------------------------------- C7
\* C7: a console read that completes with count 0, the direction in Reading,
\* starts the teardown and submits no write to the UART.
C7_ZeroConsoleRead ==
    (last.cb = "tty_read_done" /\ last.pre_tty.tag = "Reading" /\ last.result = 0) =>
        /\ InTeardown
        /\ panic = ""
        /\ \A a \in EndpointOps(last.new) : ~(a.kind = "Write" /\ a.fd = UART_FD)

\* ------------------------------------------------------------------- C8
\* A write completion with count 0, the direction in Writing.
ZeroWrite ==
    /\ last.cb \in WriteCbs
    /\ OwnPre.tag = "Writing"
    /\ last.result = 0

\* C8: a write completion with count 0, on the UART or the console, the
\* direction in Writing, starts the teardown (the direction becomes TornDown,
\* the other one enters the teardown), submits neither a read nor a write on
\* an endpoint, and does not panic.
C8_ZeroWrite ==
    ZeroWrite =>
        /\ panic = "" /\ pc # "panic"
        /\ OwnNow = TornDown
        /\ OtherNow.tag \in Down
        /\ EndpointOps(last.new) = {}

\* A console write of data returned 0 and the teardown started.
C8_Witness ==
    /\ ZeroWrite
    /\ last.cb = "tty_write_done"
    /\ Len(last.buf) > 0
    /\ uart_state = TornDown

\* ------------------------------------------------------------------- C9
\* C9: a negative result of a console read, UART write, UART read or console
\* write, its direction in Reading or Writing, ends the run with a panic: the
\* continuation submits nothing and starts no teardown.
C9_NegativeResult ==
    (last.cb \in BridgeCbs /\ OwnPre.tag \in {"Reading", "Writing"} /\ last.result < 0) =>
        /\ pc = "panic" /\ panic # ""
        /\ last.new = <<>>
        /\ ~InTeardown

\* ------------------------------------------------------------------ C10
\* A read or write completion dispatched while its direction is in TearDown
\* or TornDown.
Discarded ==
    /\ last.cb \in BridgeCbs
    /\ OwnPre.tag \in Down

\* C10: completions during shutdown are discarded.  The continuation of a
\* read or a write dispatched while its direction is in TearDown or TornDown
\* leaves both directions' states and the transcript (the log buffer, its
\* offset, flushing and backlog) as they were, submits nothing and does not
\* panic, whatever the result.  (A direction becomes TornDown in its own
\* continuation, with none of its operations in flight, so the completions
\* this is about all find their direction in TearDown.)
C10_Discard ==
    Discarded =>
        /\ tty_state = last.pre_tty
        /\ uart_state = last.pre_uart
        /\ transcript = last.pre_transcript
        /\ last.new = <<>>
        /\ panic = "" /\ pc # "panic"

\* A UART read that won the race against its cancel: it brings data while
\* the direction is in TearDown and a transcript is there to log to.
C10_Witness ==
    /\ Discarded
    /\ last.cb = "uart_read_done"
    /\ last.result > 0
    /\ last.pre_uart.tag = "TearDown"
    /\ transcript.present

\* ------------------------------------------------------------------ C11
\* start_transcript_teardown ran in the continuation dispatched last: it is
\* called from start_uart_teardown only, when there is a transcript.
LogTeardownInvoked ==
    /\ TeardownStarts
    /\ last.pre_transcript.present

\* C11: the log buffer's teardown is invoked only in a state where both
\* directions are TornDown.
C11_LogTeardownWhenTornDown ==
    LogTeardownInvoked => (tty_state = TornDown /\ uart_state = TornDown)

\* ------------------------------------------------------------------ C12
\* A read completion with n > 0 bytes, none of them the sentinel the console
\* direction looks for, its direction in Reading.
DataRead ==
    /\ last.cb \in {"tty_read_done", "uart_read_done"}
    /\ OwnPre.tag = "Reading"
    /\ last.result > 0
    /\ (last.cb = "tty_read_done" => ~HasByte(last.buf, CONTROL_O))

\* A write completion that reports the whole buffer, the n > 0 bytes the
\* read before it brought, its direction in Writing.
FullWrite ==
    /\ last.cb \in WriteCbs
    /\ OwnPre.tag = "Writing"
    /\ last.result > 0
    /\ last.result = Len(last.buf)

\* C12: the per-direction cycle.  From Reading(op), a completion with n > 0
\* bytes and no sentinel submits exactly one operation on an endpoint, a
\* write of exactly those n bytes to the other endpoint, and the direction
\* is in Writing with the id of that write.  From Writing(op), a completion
\* reporting the whole buffer submits exactly one operation, a read on the
\* direction's source with a buffer of DEFAULT_READ_SIZE bytes, and the
\* direction is in Reading with the id of that read.  Either step leaves the
\* other direction's state as it was and submits no cancel.
C12_Cycle ==
    /\ DataRead =>
          /\ \E a \in EndpointOps(last.new) :
                /\ EndpointOps(last.new) = {a}
                /\ a.kind = "Write"
                /\ a.fd = (IF last.cb = "tty_read_done" THEN UART_FD ELSE TTY_FD)
                /\ a.buf = last.buf
                /\ Len(a.buf) = last.result
                /\ a.user_data # OwnPre.id
                /\ OwnNow = Writing(a.user_data)
          /\ CancelOps(last.new) = {}
          /\ OtherNow = OtherPre
          /\ panic = ""
    /\ FullWrite =>
          /\ Len(last.new) = 1
          /\ last.new[1].kind = "Read"
          /\ last.new[1].fd = (IF last.cb = "uart_write_done" THEN TTY_FD ELSE UART_FD)
          /\ last.new[1].len = DEFAULT_READ_SIZE
          /\ last.new[1].user_data # OwnPre.id
          /\ OwnNow = Reading(last.new[1].user_data)
          /\ OtherNow = OtherPre
          /\ panic = ""

\* The UART direction went round once: the console accepted the whole of a
\* UART read and the direction reads again, the console direction writing.
C12_Witness ==
    /\ FullWrite
    /\ last.cb = "tty_write_done"
    /\ uart_state.tag = "Reading"
    /\ tty_state.tag = "Writing"
    /\ tty_out = uart_in

\* ------------------------------------------------------------------ C13
\* The completions the kernel has posted and Reactor::run has not
\* dispatched yet, and the ids of the operations the kernel has yet to
\* complete.
Posted == batch \o cq
PendingIds ==
    {e.user_data : e \in kernel} \cup {sq[i].user_data : i \in 1..Len(sq)}

\* C13: exactly-once dispatch.  Every registered operation either waits for
\* its completion or has exactly one completion posted, never both; a posted
\* completion belongs to a registered operation whose continuation has not
\* been invoked; the continuation invoked last had its record removed at
\* that moment; no operation whose continuation was invoked is registered
\* (so none is invoked a second time); Reactor::run never finds a
\* completion without a record; and when run() returns Ok every operation
\* that was registered has had its continuation invoked.
C13_ExactlyOnce ==
    /\ DOMAIN in_progress = PendingIds \cup {Posted[i].user_data : i \in 1..Len(Posted)}
    /\ \A i \in 1..Len(Posted) :
          /\ Posted[i].user_data \notin PendingIds
          /\ Posted[i].user_data \notin dispatched
          /\ \A j \in 1..Len(Posted) : i # j => Posted[i].user_data # Posted[j].user_data
    /\ dispatched \cap DOMAIN in_progress = {}
    /\ last.cb # "none" =>
          /\ last.user_data \in dispatched
          /\ last.user_data \notin DOMAIN in_progress
    /\ panic # "Got user_data in cqe that doesn't exist"
    /\ pc = "done" => (DOMAIN in_progress = {} /\ Posted = <<>> /\ dispatched # {})

\* A cancel and its target were both dispatched in one round, each once,
\* while another operation stays registered.
C13_Witness ==
    /\ last.cb = "handle_other_ev"
    /\ Cardinality(dispatched) >= 3
    /\ DOMAIN in_progress # {}
    /\ \E t \in dispatched : t \in {cancels[i] : i \in 1..Len(cancels)}

\* ------------------------------------------------------------------ C14
\* C14: Op identifiers are unique and increasing.  Across the client's
\* with_submitter calls and the rounds of run(), every identifier a submit
\* call returns is strictly greater than every identifier returned before,
\* and the "already registered" abort of Reactor::submit is not reached.
C14_IdsIncrease ==
    /\ \A i, j \in 1..Len(issued) : i < j => u64_lt(issued[i], issued[j])
    /\ panic # "user_data already registered!"

\* ------------------------------------------------------------------ C15
\* Nothing is in flight: no operation is registered, the Submitter holds no
\* action a continuation queued, the ring holds no entry, the kernel holds
\* no operation and no completion waits to be dispatched.
NothingInFlight ==
    /\ DOMAIN in_progress = {}
    /\ submitter.actions = <<>>
    /\ sq = <<>>
    /\ kernel = {}
    /\ Posted = <<>>

\* C15: run() returns Ok only in a state where nothing is in flight, and
\* whenever it comes to its loop head with nothing registered (at the call
\* or after a round) it returns at once, without submitting or waiting.
C15_RunReturns ==
    /\ [](pc = "done" => NothingInFlight)
    /\ [][(pc = "run" /\ DOMAIN in_progress = {}) =>
             (pc' = "done" /\ UNCHANGED <<in_progress, submitter, sq, kernel, cq, batch>>)]_vars

\* run() has returned after the teardown: the operations of the bridge and a
\* cancel were registered and dispatched, nothing is left.
C15_Witness ==
    /\ pc = "done"
    /\ Cardinality(dispatched) >= 3
    /\ cancels # <<>>
    /\ NothingInFlight

\* ------------------------------------------------------------------ C16
\* C16: the buffer handed to a continuation.  For a read completion with
\* result r >= 0 it has length exactly r, at most the submitted size; with
\* r < 0 it is empty; for a write completion it is the buffer the write was
\* submitted with.  The record of a write that is registered holds the
\* buffer of the action that was submitted, and the buffers handed to
\* uart_read_done are, in order, the bytes the kernel read from the UART.
C16_CompletionBuffer ==
    /\ last.op = "ReadOp" =>
          /\ last.result >= 0 => (Len(last.buf) = last.result /\ last.result <= last.len)
          /\ last.result < 0 => last.buf = <<>>
    /\ last.op = "WriteOp" => last.buf = last.submitted
    /\ \A e \in kernel \cup {sq[i] : i \in 1..Len(sq)} :
          (e.kind = "Write" /\ e.user_data \in DOMAIN in_progress) =>
              /\ in_progress[e.user_data].op = "WriteOp"
              /\ in_progress[e.user_data].buf = e.buf
    /\ IsPrefix(uart_in, Pattern(UART_FD, 0, uart_pos))

\* A read submitted with 1024 bytes of buffer completed with 2 bytes, and
\* its continuation got a buffer of 2 bytes.
C16_Witness ==
    /\ last.op = "ReadOp"
    /\ last.len = DEFAULT_READ_SIZE
    /\ last.result = 2
    /\ Len(last.buf) = 2

\* ------------------------------------------------------------------ C17
\* C17: submission-queue exhaustion never surfaces as an error.  When the
\* ring is full at the time an action is pushed, the claim is that the
\* reactor flushes the queued entries and pushes again, so that neither
\* with_submitter nor run() returns Err and every action the continuations
\* queued is registered.
C17_RingFullRetried ==
    /\ pc # "err"
    /\ (pc \in {"run", "wait"} /\ panic = "") =>
          \A i \in 1..Len(issued) :
              issued[i] \in DOMAIN in_progress \cup dispatched

\* ------------------------------------------------------------------ C18
\* C18: interrupted calls are retried.  Whatever retry_on_eintr returns is
\* what the last call of its closure returned, it is not an Interrupted
\* error, and every call before that one returned an Interrupted error (it
\* is the first result that is Ok or another error).  As long as it has not
\* returned, every call made so far returned an Interrupted error, and the
\* loop calls the closure again.
C18_RetryOnEintr ==
    /\ ret # NoRet =>
          /\ fun_calls >= 1
          /\ ret = fun_results[fun_calls]
          /\ ~(ret.kind = "Err" /\ ret.err = "Interrupted")
          /\ \A i \in 1..(fun_calls - 1) : fun_results[i] = Interrupted
    /\ ret = NoRet =>
          /\ \A i \in 1..fun_calls : fun_results[i] = Interrupted
          /\ fun_calls < Len(fun_results) => ENABLED RetryLoop

\* The closure was interrupted twice and failed with another error the third
\* time: retry_on_eintr called it three times and returned that error.
C18_Witness ==
    /\ fun_calls = 3
    /\ fun_results[1] = Interrupted
    /\ fun_results[2] = Interrupted
    /\ ret = [kind |-> "Err", val |-> 0, err |-> "Other"]

\* ------------------------------------------------------------------ C19
\* The appends so far total less than the capacity.
BelowCapacity == log_count < TRANSCRIPT_BUFFER_SIZE

\* start_transcript_teardown was the call made last, after appends that
\* total less than the capacity.
SmallTeardown ==
    /\ last.cb = "start_transcript_teardown"
    /\ BelowCapacity

\* The call made last submitted exactly one write, at offset 0, of all the
\* bytes appended, in the order they were appended, and it is the only
\* write the log buffer ever submitted.
OneWriteOfAll ==
    /\ Len(last.new) = 1
    /\ last.new[1].kind = "Write"
    /\ last.new[1].fd = FILE_FD
    /\ last.new[1].offset = 0
    /\ last.new[1].buf = LogBytes(0, log_count)
    /\ issued = <<last.new[1].user_data>>
    /\ panic = ""

\* As long as the appends total less than the capacity and
\* start_transcript_teardown was not called, the log buffer has submitted
\* no write and holds all the bytes appended.
NoWriteBeforeTeardown ==
    (BelowCapacity /\ ~log_torn) =>
        /\ issued = <<>>
        /\ submitter.actions = <<>>
        /\ log_done = <<>>
        /\ ~transcript.flushing
        /\ transcript.current_buf = LogBytes(0, log_count)

\* C19 as stated: for any sequence of appends whose total size is less than
\* the capacity, no write is submitted until start_transcript_teardown is
\* called, and that call submits exactly one write, at offset 0, of the
\* concatenation of all appended bytes.
C19_Coalescing ==
    /\ NoWriteBeforeTeardown
    /\ SmallTeardown => OneWriteOfAll

\* C19, amended: the same for any sequence of appends whose total size is
\* less than the capacity and more than 0; when nothing was appended the
\* call submits nothing.
C19_CoalescingNonEmpty ==
    /\ NoWriteBeforeTeardown
    /\ (SmallTeardown /\ log_count > 0) => OneWriteOfAll
    /\ (SmallTeardown /\ log_count = 0) => (last.new = <<>> /\ issued = <<>> /\ panic = "")

\* Four appends of 6 bytes, then the teardown: one write of 24 bytes.
C19_Witness ==
    /\ SmallTeardown
    /\ log_appends = 4
    /\ log_count = 24
    /\ Len(last.new) = 1
    /\ Len(last.new[1].buf) = 24

\* ------------------------------------------------------------------ C20
\* The bytes the completions in done reported written.
RECURSIVE Written(_)
Written(done) ==
    IF done = <<>> THEN 0
    ELSE (IF Head(done).result > 0 THEN Head(done).result ELSE 0) + Written(Tail(done))

\* C20: log write offsets.  Every write the log buffer submits is at the
\* offset that is the number of bytes all earlier log write completions
\* reported written: this holds for the write in flight and held for every
\* write that has completed.  The offsets of successive writes strictly
\* increase, the byte ranges written do not overlap, a write in flight
\* starts after all of them, and no two writes are in flight together.
C20_LogOffsets ==
    /\ Len(submitter.actions) <= 1
    /\ \A i \in 1..Len(submitter.actions) :
          /\ submitter.actions[i].kind = "Write"
          /\ submitter.actions[i].fd = FILE_FD
          /\ submitter.actions[i].offset = Written(log_done)
          /\ \A j \in 1..Len(log_done) :
                /\ log_done[j].offset < submitter.actions[i].offset
                /\ log_done[j].offset + log_done[j].result <= submitter.actions[i].offset
    /\ \A i \in 1..Len(log_done) :
          /\ log_done[i].offset = Written(SubSeq(log_done, 1, i - 1))
          /\ \A j \in (i + 1)..Len(log_done) :
                /\ log_done[i].offset < log_done[j].offset
                /\ log_done[i].offset + log_done[i].result <= log_done[j].offset

\* A write was short, its rest is in flight, and two more buffers wait in
\* the backlog.
C20_Witness ==
    /\ ShortWrites(log_done) # {}
    /\ Len(submitter.actions) = 1
    /\ submitter.actions[1].offset > 0
    /\ Len(transcript.bufs_to_be_flushed) = 2

\* ------------------------------------------------------------------ C21
\* The log writes outstanding: the Submitter holds them until they complete.
LogWritesOutstanding ==
    {i \in 1..Len(submitter.actions) :
        submitter.actions[i].kind = "Write" /\ submitter.actions[i].fd = FILE_FD}

\* C21: the log buffer's invariant.  In every state of the running program
\* the backlog is non-empty only if flushing is true, flushing is true
\* exactly when one log write is outstanding, and no more than one log
\* write is outstanding.
C21_LogInvariant ==
    (panic = "") =>
        /\ (transcript.bufs_to_be_flushed # <<>>) => transcript.flushing
        /\ transcript.flushing <=> (Cardinality(LogWritesOutstanding) = 1)
        /\ Cardinality(LogWritesOutstanding) <= 1
        /\ Len(submitter.actions) = Cardinality(LogWritesOutstanding)

\* A buffer waits in the backlog behind the write in flight, and current
\* holds bytes as well.
C21_Witness ==
    /\ panic = ""
    /\ transcript.flushing
    /\ Len(transcript.bufs_to_be_flushed) = 1
    /\ transcript.current_buf # <<>>
    /\ Cardinality(LogWritesOutstanding) = 1

\* ------------------------------------------------------------------ C22
\* log_to_transcript was the call made last, and the bytes it appended make
\* current exceed the capacity.  last.result is the number of bytes
\* appended.
AppendOverflows ==
    /\ last.cb = "log_to_transcript"
    /\ Len(last.pre_transcript.current_buf) + last.result > TRANSCRIPT_BUFFER_SIZE

\* The bytes the call made last appended.
Appended == LogBytes(log_count - last.result, last.result)

\* The buffer the call made last handed off for flushing: the buffer of the
\* write it submitted, or the backlog entry it added when a write was in
\* flight.
HandedOff ==
    IF last.pre_transcript.flushing
    THEN transcript.bufs_to_be_flushed[Len(transcript.bufs_to_be_flushed)]
    ELSE last.new[1].buf

\* C22: append at overflow.  When an append makes current exceed the
\* capacity, the buffer handed off for flushing holds exactly 4096 bytes,
\* the old current followed by the first appended bytes that fit, and the
\* new current holds only the appended bytes that are left; with current
\* at 4090 bytes and nothing in flight, an append of 10 bytes submits
\* exactly one write of 4096 bytes at offset 0 and leaves 4 bytes in
\* current.
C22_AppendAtOverflow ==
    AppendOverflows =>
        LET old == last.pre_transcript.current_buf
            room == TRANSCRIPT_BUFFER_SIZE - Len(old)
        IN
        /\ Len(HandedOff) = TRANSCRIPT_BUFFER_SIZE
        /\ HandedOff = old \o SubSeq(Appended, 1, room)
        /\ transcript.current_buf = SubSeq(Appended, room + 1, Len(Appended))
        /\ (Len(old) = 4090 /\ last.result = 10 /\ ~last.pre_transcript.flushing
              /\ last.pre_transcript.offset = 0) =>
               /\ Len(last.new) = 1
               /\ Len(last.new[1].buf) = 4096
               /\ last.new[1].offset = 0
               /\ Len(transcript.current_buf) = 4

\* What the code does in the scenario of C22: the write is of the 4090
\* bytes of the old current, and all 10 appended bytes start the new one.
C22_CodeScenario ==
    (/\ AppendOverflows
     /\ Len(last.pre_transcript.current_buf) = 4090
     /\ last.result = 10
     /\ ~last.pre_transcript.flushing) =>
        /\ Len(last.new) = 1
        /\ last.new[1].buf = last.pre_transcript.current_buf
        /\ last.new[1].offset = last.pre_transcript.offset
        /\ transcript.current_buf = Appended

\* ------------------------------------------------------------------ C23
\* C23: start_transcript_teardown.  Called with flushing false and current
\* non-empty, it sets flushing, empties current and submits exactly one
\* write, of the former current at the offset, and changes neither the
\* offset nor the backlog; called with flushing true or with current empty,
\* it submits nothing and leaves current, offset, flushing and the backlog
\* as they were.
C23_Teardown ==
    (last.cb = "start_transcript_teardown") =>
        LET pre == last.pre_transcript IN
        /\ panic = ""
        /\ IF ~pre.flushing /\ pre.current_buf # <<>>
           THEN /\ transcript.flushing
                /\ transcript.current_buf = <<>>
                /\ transcript.offset = pre.offset
                /\ transcript.bufs_to_be_flushed = pre.bufs_to_be_flushed
                /\ Len(last.new) = 1
                /\ last.new[1].kind = "Write"
                /\ last.new[1].fd = FILE_FD
                /\ last.new[1].buf = pre.current_buf
                /\ last.new[1].offset = pre.offset
                /\ submitter.actions = last.new
           ELSE /\ last.new = <<>>
                /\ transcript = pre

\* The call flushed a non-empty current at an offset past the start of the
\* file.
C23_Witness ==
    /\ last.cb = "start_transcript_teardown"
    /\ ~last.pre_transcript.flushing
    /\ last.pre_transcript.current_buf # <<>>
    /\ last.pre_transcript.offset > 0
    /\ Len(last.new) = 1

\* The call found a write in flight, a buffer in the backlog and bytes in
\* current, and left them.
C23_WitnessFlushing ==
    /\ last.cb = "start_transcript_teardown"
    /\ last.pre_transcript.flushing
    /\ last.pre_transcript.bufs_to_be_flushed # <<>>
    /\ last.pre_transcript.current_buf # <<>>
    /\ Len(submitter.actions) = 1

\* ------------------------------------------------------------------ C24
\* start_transcript_teardown has been called, every log write submitted has
\* completed with a count above 0, and none is outstanding.
TornAndIdle ==
    /\ log_torn
    /\ panic = ""
    /\ submitter.actions = <<>>
    /\ \A i \in 1..Len(log_done) : log_done[i].result > 0

\* C24: teardown flushes all pending log data.  After
\* start_transcript_teardown has been called and every log write has
\* completed successfully, every byte appended has been written: the
\* offset is the total appended length, and current and the backlog are
\* empty; also when a write was in flight when teardown was requested.
C24_TeardownFlushesAll ==
    TornAndIdle =>
        /\ transcript.offset = log_count
        /\ transcript.current_buf = <<>>
        /\ transcript.bufs_to_be_flushed = <<>>

\* ------------------------------------------------------------------ C25
\* The completion dispatched last is a log write's, with count 0 or with an
\* error.
LogWriteFailed ==
    /\ last.cb = "handle_buffer_ev"
    /\ last.result <= 0

\* C25: log failures are isolated from the bridge.  After a log write
\* completed with 0 or with an error the program still runs: run() goes on
\* dispatching, and both directions have the states they had before the
\* completion.
C25_LogFailureIsolated ==
    LogWriteFailed =>
        /\ panic = ""
        /\ pc = "dispatch"
        /\ tty_state = last.pre_tty
        /\ uart_state = last.pre_uart

\* ------------------------------------------------------------------ C26
\* C26: log write completion.  On a completion with count n > 0 the offset
\* advances by n and current is left alone.  If n is less than the length
\* of the buffer, exactly one write of the bytes after the first n is
\* submitted at the advanced offset, flushing stays true and the backlog
\* is untouched.  If n is the length of the buffer, the front of the
\* backlog, if there is one, is popped and submitted at the advanced
\* offset with flushing still true; otherwise nothing is submitted and
\* flushing becomes false.
C26_LogWriteCompletion ==
    (last.cb = "handle_buffer_ev" /\ last.result > 0) =>
        LET pre == last.pre_transcript
            n == last.result
        IN
        /\ panic = ""
        /\ transcript.offset = pre.offset + n
        /\ transcript.current_buf = pre.current_buf
        /\ \A i \in 1..Len(last.new) :
              /\ last.new[i].kind = "Write"
              /\ last.new[i].fd = FILE_FD
              /\ last.new[i].offset = pre.offset + n
        /\ IF n < Len(last.buf)
           THEN /\ Len(last.new) = 1
                /\ last.new[1].buf = SubSeq(last.buf, n + 1, Len(last.buf))
                /\ transcript.flushing
                /\ transcript.bufs_to_be_flushed = pre.bufs_to_be_flushed
           ELSE IF pre.bufs_to_be_flushed # <<>>
           THEN /\ Len(last.new) = 1
                /\ last.new[1].buf = Head(pre.bufs_to_be_flushed)
                /\ transcript.flushing
                /\ transcript.bufs_to_be_flushed = Tail(pre.bufs_to_be_flushed)
           ELSE /\ last.new = <<>>
                /\ ~transcript.flushing
                /\ transcript.bufs_to_be_flushed = <<>>

\* The rest of a short write completed in full, and the first of two
\* buffers in the backlog was submitted.
C26_Witness ==
    /\ last.cb = "handle_buffer_ev"
    /\ last.result = Len(last.buf)
    /\ ShortWrites(log_done) # {}
    /\ Len(last.pre_transcript.bufs_to_be_flushed) = 2
    /\ Len(last.new) = 1
    /\ transcript.flushing

\* A write was short with a buffer in the backlog: the rest is submitted.
C26_WitnessShort ==
    /\ last.cb = "handle_buffer_ev"
    /\ last.result > 0
    /\ last.result < Len(last.buf)
    /\ last.pre_transcript.bufs_to_be_flushed # <<>>
    /\ Len(last.new) = 1

\* ------------------------------------------------------------------ C27
\* The program runs: it has neither panicked nor returned an error.
Running == pc \notin {"panic", "err"}

\* The completion dispatched last is a UART read's with count > 0, which the
\* direction, in Reading, handles (in TearDown or TornDown it is discarded).
UartDataHandled ==
    /\ last.cb = "uart_read_done"
    /\ last.result > 0
    /\ last.pre_uart.tag = "Reading"

\* The completions of log write id that wait in the completion ring or in
\* the batch being dispatched.
LogCompletions(id) ==
    {i \in 1..Len(Posted) : Posted[i].user_data = id /\ Posted[i].result > 0}

\* The part of the log write in flight that is not in the file: the whole
\* buffer of a write the Submitter holds or the kernel has not completed,
\* and what the count leaves of a write whose completion waits.
InFlightUnwritten ==
    LET queued == {i \in 1..Len(submitter.actions) : submitter.actions[i].fd = FILE_FD}
        ids == {id \in DOMAIN in_progress : in_progress[id].cb = "handle_buffer_ev"}
    IN
    IF queued # {} THEN submitter.actions[CHOOSE i \in queued : TRUE].buf
    ELSE IF ids # {} THEN
        LET id == CHOOSE id \in ids : TRUE
            buf == in_progress[id].buf
            done == LogCompletions(id)
        IN  IF done = {} THEN buf
            ELSE SubSeq(buf, Posted[CHOOSE i \in done : TRUE].result + 1, Len(buf))
    ELSE <<>>

\* The buffers of the backlog, one after the other.
RECURSIVE Flatten(_)
Flatten(bufs) == IF bufs = <<>> THEN <<>> ELSE Head(bufs) \o Flatten(Tail(bufs))

C27_WitnessFile ==
    /\ Running
    /\ Len(log_appended) = 2
    /\ Len(log_file) = 1
    /\ Len(InFlightUnwritten) = 1
    /\ transcript.current_buf = <<>>

\* ------------------------------------------------------------------ C28
\* The queue post is the queue pre with the buffer b enqueued: b is a new
\* last entry or follows the bytes of the front entry, and the cursor is
\* where it was.
Enqueued(pre, post, b) ==
    /\ post.written = pre.written
    /\ \/ post.queue = Append(pre.queue, b)
       \/ /\ pre.queue # <<>>
          /\ post.queue = [pre.queue EXCEPT ![1] = @ \o b]

\* C28: BufQueue::try_write_or_enqueue.  Called with a non-empty queue it
\* enqueues the whole buffer, does not call the sink and returns Ok.
\* Called with an empty queue it calls the sink once, with the buffer: a
\* full write leaves the queue empty and returns Ok; a short write of n
\* bytes leaves exactly the bytes after the first n in the queue and
\* returns Ok; WouldBlock leaves the whole buffer in the queue and returns
\* Ok; any other error is returned and the queue is left empty.
C28_TryWriteOrEnqueue ==
    (bq_last.op = "try_write_or_enqueue") =>
        LET pre == bq_last.pre
            buf == bq_last.buf
            calls == bq_last.calls
        IN
        IF pre.queue # <<>>
        THEN /\ calls = <<>>
             /\ bq_last.ret = "Ok"
             /\ Enqueued(pre, bufq, buf)
        ELSE /\ Len(calls) = 1
             /\ calls[1].arg = buf
             /\ LET r == calls[1].res IN
                IF r.kind = "Ok" /\ r.val = Len(buf)
                THEN bq_last.ret = "Ok" /\ bufq = pre
                ELSE IF r.kind = "Ok"
                THEN /\ bq_last.ret = "Ok"
                     /\ bufq.queue = <<SubSeq(buf, r.val + 1, Len(buf))>>
                     /\ bufq.written = pre.written
                ELSE IF r.err = "WouldBlock"
                THEN /\ bq_last.ret = "Ok"
                     /\ bufq.queue = <<buf>>
                     /\ bufq.written = pre.written
                ELSE bq_last.ret = "Err" /\ bufq = pre

\* The sink took the first byte of 4094: the other 4093 are the queue.
C28_Witness ==
    /\ bq_last.op = "try_write_or_enqueue"
    /\ bq_last.pre.queue = <<>>
    /\ Len(bq_last.buf) = MAX_BUF_SIZE - 2
    /\ bq_last.calls[1].res = WriteOk(1)
    /\ Len(bufq.queue) = 1
    /\ Len(bufq.queue[1]) = MAX_BUF_SIZE - 3
    /\ bufq.queue[1][1] = bq_last.buf[2]

\* The call found two buffers in the queue and added a third.
C28_WitnessQueued ==
    /\ bq_last.op = "try_write_or_enqueue"
    /\ Len(bq_last.pre.queue) = 2
    /\ Len(bufq.queue) = 3
    /\ bq_last.calls = <<>>

\* ------------------------------------------------------------------ C29
\* The unwritten bytes of entry i of the queue q: those after the cursor
\* for the front entry, all of them for the others.
Remainder(q, i) ==
    IF i = 1 THEN SubSeq(q.queue[1], q.written + 1, Len(q.queue[1])) ELSE q.queue[i]

\* Call c wrote all of the buffer it was given.
FullCall(c) == c.res.kind = "Ok" /\ c.res.val = Len(c.arg)

\* C29: BufQueue::flush.  It writes the unwritten remainder of the front
\* buffer, one buffer after the other, each popped once it is written in
\* full.  It returns Ok when the queue is empty, and at the first write that
\* is short or answered with WouldBlock; it returns the error of a write
\* that fails otherwise; it calls the sink no more after any of these.  A
\* short write advances the cursor by its count; WouldBlock and a hard
\* error leave the queue and the cursor as they were before that write.
C29_Flush ==
    (bq_last.op = "flush") =>
        LET pre == bq_last.pre
            calls == bq_last.calls
            k == Len(calls)
            left == [queue |-> SubSeq(pre.queue, k, Len(pre.queue)),
                     written |-> IF k = 1 THEN pre.written ELSE 0]
        IN
        /\ k <= Len(pre.queue)
        /\ \A i \in 1..k : calls[i].arg = Remainder(pre, i)
        /\ \A i \in 1..(k - 1) : FullCall(calls[i])
        /\ IF k = 0 \/ FullCall(calls[k])
           THEN /\ k = Len(pre.queue)
                /\ bufq = NewBufQueue
                /\ bq_last.ret = "Ok"
           ELSE LET r == calls[k].res IN
                IF r.kind = "Ok"
                THEN /\ bufq = [left EXCEPT !.written = @ + r.val]
                     /\ bq_last.ret = "Ok"
                ELSE IF r.err = "WouldBlock"
                THEN bufq = left /\ bq_last.ret = "Ok"
                ELSE bufq = left /\ bq_last.ret = "Err"

\* The first of two buffers was written in full and the second was short.
C29_Witness ==
    /\ bq_last.op = "flush"
    /\ Len(bq_last.pre.queue) = 2
    /\ Len(bq_last.calls) = 2
    /\ FullCall(bq_last.calls[1])
    /\ bq_last.calls[2].res = WriteOk(1)
    /\ Len(bufq.queue) = 1
    /\ bufq.written = 1

\* The sink failed on a buffer it had taken a byte of before: the cursor
\* stays.
C29_WitnessError ==
    /\ bq_last.op = "flush"
    /\ bq_last.pre.written = 1
    /\ Len(bq_last.calls) = 1
    /\ bq_last.calls[1].res = WriteErr("Other")
    /\ bq_last.ret = "Err"
    /\ bufq = bq_last.pre


\* ------------------------------------------------------------------ C30
\* C30: the partial-write cursor.  After any calls of try_write_or_enqueue
\* and flush, a queue that is not empty has its cursor written strictly
\* below the length of its front buffer, and an empty queue has the cursor
\* at 0.
C30_CursorInvariant ==
    IF bufq.queue # <<>>
    THEN bufq.written < Len(Head(bufq.queue))
    ELSE bufq.written = 0

\* What the code keeps for every buffer, empty ones included: the cursor
\* is never beyond the front buffer, so the slice flush takes exists.
C30_CursorInBounds ==
    IF bufq.queue # <<>>
    THEN bufq.written <= Len(Head(bufq.queue))
    ELSE bufq.written = 0

\* ------------------------------------------------------------------ C31
\* UartTty::new got as far as overwriting the console's settings.
ConsoleOverwritten == uart_new \in {"none", "get_uart", "set_uart"}

\* The calls of set_tty_settings the drop made on fd.
RestoresOf(fd) == {i \in 1..Len(restores) : restores[i].fd = fd}

\* C31: the terminal settings are restored on every exit path.  When the
\* program has ended and UartTty::new had overwritten the console's
\* settings, also if a later step of UartTty::new failed, the console's
\* original settings were set again (the console has them unless that call
\* failed), and when the UartTty object was built the UART's settings were
\* set again too, whether or not the call for the console succeeded.
C31_SettingsRestored ==
    (m_pc = "exited" /\ ConsoleOverwritten) =>
        /\ RestoresOf(TTY_FD) # {}
        /\ (\A i \in RestoresOf(TTY_FD) : restores[i].ok) => termios[TTY_FD] = ORIG
        /\ uart_new = "none" => RestoresOf(UART_FD) # {}

\* What the code does keep: an object that was built is dropped with both
\* calls made, the one for the UART also after the one for the console
\* failed.
C31_DropRestoresBoth ==
    (m_pc = "exited" /\ uart_new = "none") =>
        /\ Len(restores) = 2
        /\ restores[1].fd = TTY_FD
        /\ restores[2].fd = UART_FD
        /\ restores[1].ok => termios[TTY_FD] = ORIG
        /\ restores[2].ok => termios[UART_FD] = ORIG

\* ------------------------------------------------------------------ C32
\* C32: the exit status.  The program ends with status 0 when mainloop
\* returned Ok (the user quit or the peer closed), and with a status other
\* than 0 when mainloop returned an I/O error.
C32_ExitStatus ==
    (m_pc = "exited") =>
        /\ m_ret = "Ok" => exit_status = 0
        /\ m_ret = "Err" => exit_status # 0

\* ------------------------------------------------------------------ C40
\* C40: the readiness-based main loop.  Whenever an iteration of the loop
\* has ended (mainloop is back at poll), read interest is registered for
\* both endpoints, and write interest is registered for an endpoint exactly
\* when its queue of pending writes is not empty.
C40_Interest ==
    (m_pc = "part2") =>
        /\ "R" \in interest.tty
        /\ "R" \in interest.uart
        /\ ("W" \in interest.tty) <=> (bufs_to_write_tty.queue # <<>>)
        /\ ("W" \in interest.uart) <=> (bufs_to_write_uart.queue # <<>>)

\* An iteration has ended with bytes queued for the console and none for
\* the UART: write interest is registered for the console only.
C40_Witness ==
    /\ m_pc = "part2"
    /\ m_iter = 1
    /\ bufs_to_write_tty.queue # <<>>
    /\ Len(bufs_to_write_tty.queue[1]) = BUFFER_SIZE - 1
    /\ bufs_to_write_uart.queue = <<>>
    /\ interest = [tty |-> {"R", "W"}, uart |-> {"R"}]

\* ------------------------------------------------------------------ C33
\* The aborts of a continuation entered in a state it rejects.
InvalidStatePanics ==
    {"tty_read_done in invalid state", "uart_write_done in invalid state",
     "uart_read_done in invalid state", "tty_write_done in invalid state",
     "start_uart_teardown in invalid state"}

\* C33: no invalid-state abort is reachable.  In whatever order the kernel
\* delivers the completions, several of them in one round or a cancelled
\* operation before or after its cancel, no continuation of the bridge and
\* no start_uart_teardown is entered in a state it rejects: tty_read_done
\* is never called with the console direction TornDown, a continuation
\* that finds its direction in teardown never starts the teardown again,
\* and one teardown cancels at most one operation for each direction.
C33_NoInvalidState ==
    /\ panic \notin InvalidStatePanics
    /\ (last.cb = "tty_read_done") => last.pre_tty.tag # "TornDown"
    /\ (last.cb \in BridgeCbs /\ OwnPre.tag \in Down) =>
            (tty_state = last.pre_tty /\ uart_state = last.pre_uart /\ last.new = <<>>)
    /\ Len(cancels) <= 2

\* The console read brought CONTROL_O and started the teardown; the
\* completion of the console write, delivered after it with a positive
\* count, found its direction in TearDown and was ignored.
C33_Witness ==
    /\ last.cb = "tty_write_done"
    /\ last.pre_uart.tag = "TearDown"
    /\ last.pre_tty = TornDown
    /\ last.result > 0
    /\ uart_state = last.pre_uart
    /\ panic = ""
    /\ Len(cancels) = 1

\* ------------------------------------------------------------------ C34
\* The reads and writes of the direction with the continuations cbs that
\* are registered and whose completion has not been dispatched.
DirOps(cbs) == {id \in DOMAIN in_progress : in_progress[id].cb \in cbs}

\* A direction in state st with the continuations cbs has the one
\* operation its state names outstanding, a read in Reading and a write in
\* Writing.
OneOp(st, cbs, read_cb, write_cb) ==
    /\ st.tag # "Processing"
    /\ st.tag \in {"Reading", "Writing"} =>
          /\ DirOps(cbs) = {st.id}
          /\ in_progress[st.id].cb = (IF st.tag = "Reading" THEN read_cb ELSE write_cb)
          /\ in_progress[st.id].op = (IF st.tag = "Reading" THEN "ReadOp" ELSE "WriteOp")
    /\ Cardinality(DirOps(cbs)) <= 1

\* C34: one operation per direction.  Whenever the reactor is waiting (no
\* continuation is running), no direction is in Processing, and a
\* direction in Reading(op) or Writing(op) has exactly one read or write
\* outstanding, which is op: a direction never has two operations in
\* flight.
C34_OneOpPerDirection ==
    (pc = "wait") =>
        /\ OneOp(tty_state, TtyCbs, "tty_read_done", "uart_write_done")
        /\ OneOp(uart_state, BridgeCbs \ TtyCbs, "uart_read_done", "tty_write_done")

\* The reactor waits with the console direction writing to the UART and
\* the UART direction reading: two operations are outstanding, one each.
C34_Witness ==
    /\ pc = "wait"
    /\ tty_state.tag = "Writing"
    /\ uart_state.tag = "Reading"
    /\ DirOps(TtyCbs) = {tty_state.id}
    /\ DirOps(BridgeCbs \ TtyCbs) = {uart_state.id}
    /\ in_progress[tty_state.id].op = "WriteOp"

\* ------------------------------------------------------------------ C35
\* All the bytes passed to try_write_or_enqueue so far, in call order.
Passed == LogBytes(0, bq_count)

\* C35: the partial-write queue preserves the byte order.  After any calls
\* of try_write_or_enqueue and flush, the sink writing in full, short or
\* answering WouldBlock (no call has failed), the bytes the sink accepted
\* are a prefix of the buffers passed to try_write_or_enqueue, one after
\* the other in call order.
C35_ByteOrder ==
    ~bq_failed => IsPrefix(sink_out, Passed)

\* ------------------------------------------------------------------ C36
\* The bytes of q that are still to be written.
RECURSIVE SumLen(_)
SumLen(bufs) == IF bufs = <<>> THEN 0 ELSE Len(Head(bufs)) + SumLen(Tail(bufs))

Pending(q) == SumLen(q.queue) - q.written

\* C36: the partial-write queue conserves bytes.  After any calls of
\* try_write_or_enqueue and flush that returned Ok, the number of bytes the
\* sink accepted and the number of bytes pending in the queue (the lengths
\* of the queued buffers less the cursor) add up to the number of bytes
\* passed to try_write_or_enqueue.
C36_Conservation ==
    ~bq_failed => Len(sink_out) + Pending(bufq) = bq_count

\* Three buffers were passed, a short write took one byte of the second,
\* and the others wait in two queue entries behind the cursor.
C36_Witness ==
    /\ ~bq_failed
    /\ bq_calls = 4
    /\ bq_count = 2 * MAX_BUF_SIZE - 2
    /\ Len(bufq.queue) = 2
    /\ bufq.written = 1
    /\ Len(sink_out) = 3
    /\ Pending(bufq) = bq_count - 3

\* ------------------------------------------------------------------ C37
\* The ids of the entries the kernel holds.
KernelIds == {e.user_data : e \in kernel}

\* The target of a cancel was pushed to the ring before the cancel: it is
\* registered or its completion was dispatched already.
TargetPushed(target) == target \in DOMAIN in_progress \cup dispatched

\* C37: deferred, ordered submission.  While the completions of a round
\* are dispatched nothing is pushed to the ring: what the continuations
\* submit stays with the Submitter, neither registered nor with the
\* kernel.  After the round the ring holds these operations in the order
\* in which they were submitted (all of them when run goes on, the first
\* of them when a push failed).  A cancel in the ring or with the kernel
\* has its target pushed before it, at an earlier place of the ring when
\* both were submitted in one round.
C37_DeferredOrdered ==
    /\ (pc = "dispatch") =>
          /\ sq = <<>>
          /\ \A i \in 1..Len(submitter.actions) :
                submitter.actions[i].user_data \notin DOMAIN in_progress \cup KernelIds
    /\ (pc = "run") =>
          Ids(sq) = SubSeq(issued, Len(issued) - Len(sq) + 1, Len(issued))
    /\ (pc = "err") =>
          \E k \in 1..(Len(issued) + 1) : IsPrefix(Ids(sq), SubSeq(issued, k, Len(issued)))
    /\ \A i \in 1..Len(sq) :
          sq[i].kind = "Cancel" =>
              /\ TargetPushed(sq[i].target)
              /\ \A j \in i..Len(sq) : sq[j].user_data # sq[i].target
    /\ \A e \in kernel :
          e.kind = "Cancel" =>
              /\ TargetPushed(e.target)
              /\ \A j \in 1..Len(sq) : sq[j].user_data # e.target

\* One round submitted a write and then the cancel of that write: the ring
\* holds the write ahead of its cancel.
C37_Witness ==
    /\ pc = "run"
    /\ \E i \in 1..Len(sq) : \E j \in (i + 1)..Len(sq) :
          /\ sq[i].kind = "Write"
          /\ sq[j].kind = "Cancel"
          /\ sq[j].target = sq[i].user_data

\* ------------------------------------------------------------------ C38
SeqIds(s) == {s[i].user_data : i \in 1..Len(s)}

\* The ids of the entries pushed to the submission ring whose completion
\* has not been dispatched: they are in the ring, with the kernel, or their
\* completion waits in the completion ring or in the round being
\* dispatched.
InFlightIds == SeqIds(sq) \cup KernelIds \cup SeqIds(cq) \cup SeqIds(batch)

\* When a push has failed: the ids of the operation that was not pushed and
\* of those queued behind it, which are the ids issued after the last one
\* in the ring.
NotPushed ==
    LET p == CHOOSE i \in 1..Len(issued) : issued[i] = sq[Len(sq)].user_data
    IN  {issued[i] : i \in (p + 1)..Len(issued)}

\* C38: the in-flight map matches the kernel.  In every state between two
\* steps of the reactor the keys of in_progress are the ids of the entries
\* pushed to the submission ring whose completion has not been dispatched
\* yet, and no id is dispatched twice.  When a push failed, the operation
\* that was not pushed and those behind it have no record in in_progress
\* and their continuations were not invoked.
C38_InFlightMap ==
    /\ (pc # "panic") => DOMAIN in_progress = InFlightIds
    /\ DOMAIN in_progress \cap dispatched = {}
    /\ (pc = "err") =>
          /\ sq # <<>>
          /\ NotPushed # {}
          /\ NotPushed \cap (DOMAIN in_progress \cup dispatched \cup InFlightIds) = {}


\* A round of run submitted more than the ring holds: the push of the last
\* action failed, it is not registered, and what was pushed before it is.
C38_Witness ==
    /\ pc = "err"
    /\ dispatched # {}
    /\ Len(sq) = ring_entries
    /\ NotPushed # {}
    /\ SeqIds(sq) \subseteq DOMAIN in_progress
    /\ NotPushed \cap DOMAIN in_progress = {}


\* C39: log buffer bounds.  Every buffer appended in SpecLog is non-empty and
\* shorter than TRANSCRIPT_BUFFER_SIZE (LogSizes), so in every state the
\* current buffer is shorter than TRANSCRIPT_BUFFER_SIZE, and every buffer
\* handed to a write or waiting in the backlog holds between 1 and
\* TRANSCRIPT_BUFFER_SIZE bytes; a write asks for all the bytes of its buffer,
\* also when it continues after a short write, so no write of zero bytes is
\* submitted.
LogSizesInRange ==
    \A n \in LogSizes : n >= 1 /\ n < TRANSCRIPT_BUFFER_SIZE

FlushLenOk(b) ==
    Len(b) >= 1 /\ Len(b) <= TRANSCRIPT_BUFFER_SIZE

C39_LogBounds ==
    LogSizesInRange =>
        /\ Len(transcript.current_buf) < TRANSCRIPT_BUFFER_SIZE
        /\ \A i \in 1..Len(transcript.bufs_to_be_flushed) :
               FlushLenOk(transcript.bufs_to_be_flushed[i])
        /\ \A i \in 1..Len(submitter.actions) :
               LET a == submitter.actions[i] IN
               a.kind = "Write" =>
                   /\ FlushLenOk(a.buf)
                   /\ a.len = Len(a.buf)

\* A buffer of exactly TRANSCRIPT_BUFFER_SIZE bytes is being written, another
\* buffer waits behind it, and the current buffer holds bytes again.
C39_Witness ==
    /\ LogSizesInRange
    /\ \E i \in 1..Len(submitter.actions) :
           /\ submitter.actions[i].kind = "Write"
           /\ Len(submitter.actions[i].buf) = TRANSCRIPT_BUFFER_SIZE
    /\ Len(transcript.bufs_to_be_flushed) >= 1
    /\ Len(transcript.current_buf) >= 1

====
